---- MODULE Spec2Model ----
(***************************************************************************)
(* minicontratos: the span ledger, its hashing and signing, and the        *)
(* IndexedDB stores behind it.                                             *)
(*                                                                         *)
(* JavaScript values are tagged records of one shape, so that any two of   *)
(* them can be compared.  A string is a sequence of chunks (a chunk stands *)
(* for one or more characters); an object is the sequence of its           *)
(* <<key, value>> properties in insertion order.                           *)
(***************************************************************************)
EXTENDS Integers, Sequences, FiniteSets, TLC

VARIABLES
    \* ---- hashing and signing of one span (SpecCrypto) ----
    orig,          \* the span as its caller built, hashed and signed it
    cur,           \* the same span after later changes to the object
    origHash,      \* calculateSpanHash(orig), <<>> before the call
    curHash,       \* calculateSpanHash(cur), <<>> when not computed for cur
    sig,           \* signSpan's result, <<>> before the call
    signKey,       \* the keypair whose private key signed, 0 before the call
    verifyKey,     \* the keypair whose public key was given to verifySignature
    verifyResult,  \* "none" | "true" | "false" | "throws"
    edits,         \* number of changes made to cur
    verifyInput,   \* the signature and public key given to verifySignature
    \* ---- the IndexedDB stores and their callers (Spec) ----
    spans,         \* object store 'spans': the set of stored span objects
    contracts,     \* object store 'contracts'
    users,         \* object store 'users'
    credentials,   \* object store 'credentials'
    identity,      \* object store 'identity'
    session,       \* object store 'session'
    appendLog,     \* ids of the spans in the order their append succeeded
    lastOp,        \* the operation that ran last, with its arguments
    lastResult,    \* what it returned
    lastError,     \* the error it failed with, "none" when it succeeded
    prevSpans,     \* 'spans' as it was before the operation that ran last
    \* ---- the API key vault (SpecVault) ----
    secret,        \* the API key given to encryptApiKey
    scope,         \* the user id given to encryptApiKey
    blob,          \* what encryptApiKey returned, <<>> before the call
    presented,     \* the blob given to decryptApiKey
    openScope,     \* the user id given to decryptApiKey
    decrypted,     \* what decryptApiKey did: a string, or a rejection
    \* ---- two concurrent appendToLedger calls (SpecConcurrent) ----
    calls,         \* each call: where it is, its span, its connection, its outcome
    dbInstance,    \* getDB's module variable: the cached connection, 0 when null
    \* ---- generateId (SpecIds) ----
    clock,         \* Date.now(), in two halves of 24 bits
    idLog,         \* the last two ids generateId built, each with its timestamp
    \* ---- the pages of the application (SpecApp) ----
    isAuthenticated, \* App's state: "null" | "true" | "false"
    path,          \* the router's location
    arrivedBy,     \* what set the location last
    timer,         \* Onboarding's setTimeout: "pending" | "none"
    step,          \* Onboarding's state: 'welcome' | 'name' | 'apikey' | 'complete'
    typedName,     \* Onboarding's state: name
    typedKey,      \* Onboarding's state: apiKey
    loading,       \* Onboarding's state
    error,         \* Onboarding's state: "" or which message is shown
    submitted,     \* the handleApiKeySubmit call under way: its name and apiKey
    registered,    \* the registerUser calls made: what each was given, drew and did
    \* ---- the CreateContract page (SpecCreate) ----
    typedDescription, \* CreateContract's state: description
    generating,    \* CreateContract's state
    conversation,  \* CreateContract's state: the messages shown
    createError,   \* CreateContract's state: error, "" or which message is shown
    pending,       \* the handleSubmit calls under way: what each one's closure holds
    sent           \* what callLLM was given last: the text and the message list

cryptoVars == <<orig, cur, origHash, curHash, sig, signKey, verifyKey,
                verifyResult, edits, verifyInput>>
storeVars == <<spans, contracts, users, credentials, identity, session,
               appendLog, lastOp, lastResult, lastError, prevSpans>>
vaultVars == <<secret, scope, blob, presented, openScope, decrypted>>
callVars == <<calls, dbInstance>>
idVars == <<clock, idLog>>
onboardingVars == <<step, typedName, typedKey, loading, error, submitted>>
createVars == <<typedDescription, generating, conversation, createError,
                pending, sent>>
appVars == <<isAuthenticated, path, arrivedBy, timer, onboardingVars, registered,
             createVars>>
vars == <<cryptoVars, storeVars, vaultVars, callVars, idVars, appVars>>

(***************************************************************************)
(* Bounds of the model.                                                    *)
(***************************************************************************)
MaxEdits == 2
MaxLimit == 2
MaxRegistrations == 2
MaxMessages == 4
MaxPending == 1

(***************************************************************************)
(* JavaScript values.                                                      *)
(***************************************************************************)
Undefined == [t |-> "undefined", s |-> <<>>, o |-> <<>>]
Str(chunks) == [t |-> "string", s |-> chunks, o |-> <<>>]
Atom(a) == Str(<<a>>)
True == [t |-> "boolean", s |-> <<"true">>, o |-> <<>>]
Obj(props) == [t |-> "object", s |-> <<>>, o |-> props]

Range(seq) == {seq[i] : i \in 1..Len(seq)}

\* Object.keys(v): the own keys in insertion order.
Keys(v) == [i \in 1..Len(v.o) |-> v.o[i][1]]

HasKey(v, k) == \E i \in 1..Len(v.o) : v.o[i][1] = k

\* v[k]: reading a missing property gives undefined.
Get(v, k) ==
    IF HasKey(v, k)
    THEN v.o[CHOOSE i \in 1..Len(v.o) : v.o[i][1] = k][2]
    ELSE Undefined

\* v[k] = x: an existing key keeps its place, a new one goes last.
Put(v, k, x) ==
    IF HasKey(v, k)
    THEN Obj([i \in 1..Len(v.o) |->
                 IF v.o[i][1] = k THEN <<k, x>> ELSE v.o[i]])
    ELSE Obj(Append(v.o, <<k, x>>))

\* delete v[k]
Delete(v, k) == Obj(SelectSeq(v.o, LAMBDA p : p[1] # k))

Reverse(seq) == [i \in 1..Len(seq) |-> seq[Len(seq) + 1 - i]]

(***************************************************************************)
(* Array.prototype.sort() on key names: ascending UTF-16 code unit order.  *)
(* KeyOrder lists every property name of the program in that order.        *)
(***************************************************************************)
KeyOrder ==
    <<"action", "body", "completed_at", "confirmed_by", "description",
      "domain", "duration_ms", "entity", "hash", "id", "input", "metadata",
      "name", "output", "parent_id", "rules", "signature", "signer_id",
      "started_at", "success", "this", "timestamp", "trace_id", "type",
      "user_id", "version">>

SortKeys(keys) == SelectSeq(KeyOrder, LAMBDA k : k \in Range(keys))

(***************************************************************************)
(* JSON.stringify(value, replacer, indent = none).  With an array as       *)
(* replacer (useList) the array is the property list of EVERY object of    *)
(* the value, nested ones included, and its order is the output order;     *)
(* without one an object's own keys are, in insertion order.  A property   *)
(* whose value is undefined is left out.                                   *)
(***************************************************************************)
RECURSIVE JSONStringify(_, _, _)
RECURSIVE SerializeProperties(_, _, _, _, _)

SerializeProperties(v, K, useList, list, i) ==
    IF i > Len(K) THEN <<>>
    ELSE (IF i > 1 THEN <<",">> ELSE <<>>)
         \o <<"\"", K[i], "\"", ":">>
         \o JSONStringify(Get(v, K[i]), useList, list)
         \o SerializeProperties(v, K, useList, list, i + 1)

JSONStringify(v, useList, list) ==
    CASE v.t = "string" -> <<"\"">> \o v.s \o <<"\"">>
      [] v.t = "boolean" -> v.s
      [] v.t = "object" ->
            LET K0 == IF useList THEN list ELSE Keys(v)
                K == SelectSeq(K0, LAMBDA k : Get(v, k).t # "undefined")
            IN <<"{">> \o SerializeProperties(v, K, useList, list, 1) \o <<"}">>
      [] OTHER -> <<>>

(***************************************************************************)
(* new TextEncoder().encode(string): the bytes of a string.  One chunk     *)
(* gives one byte, its place in Alphabet, which lists every chunk the      *)
(* program's strings are made of; distinct strings give distinct bytes.    *)
(***************************************************************************)
HexDigits ==
    <<"0", "1", "2", "3", "4", "5", "6", "7", "8", "9",
      "a", "b", "c", "d", "e", "f">>

\* The chunks of the strings the model uses, in ascending code unit order.
ValueAtoms ==
    <<" ", "-", "1.0.0", "Ana", "Novo contrato", "ana", "blake3:", "bob",
      "contract.created", "create_contract", "d1", "d2", "ed25519:", "k1",
      "k2", "minicontrato", "minicontratos.local", "onboarding-",
      "register_user", "s1", "s2", "s3", "sk-", "sk-ant-", "t1", "t2", "t3",
      "tA", "tB", "user", "user-", "user.registered", "v1", "x1", "x2", "zz",
      "U+00E9", "U+D800", "U+FEFF", "U+FFFD">>

Alphabet ==
    <<"{", "}", ":", ",", "\"", "true">> \o HexDigits \o KeyOrder \o ValueAtoms

\* "U+00E9" is a non-ASCII character, "U+D800" a surrogate with no partner,
\* "U+FEFF" the byte order mark, "U+FFFD" the replacement character.
CodeOf(chunk) == CHOOSE c \in 1..Len(Alphabet) : Alphabet[c] = chunk

\* new TextEncoder().encode(string): UTF-8; a surrogate with no partner is
\* encoded as U+FFFD.
TextEncode(string) ==
    [i \in 1..Len(string) |->
        IF string[i] = "U+D800" THEN CodeOf("U+FFFD") ELSE CodeOf(string[i])]

\* bytesToHex of @noble/hashes: two lower-case digits for every byte.
BytesToHex(bytes) ==
    [i \in 1..(2 * Len(bytes)) |->
        LET b == bytes[(i + 1) \div 2]
        IN IF i % 2 = 1 THEN HexDigits[(b \div 16) + 1]
                        ELSE HexDigits[(b % 16) + 1]]

(***************************************************************************)
(* blake3 is taken as collision free: the digest of a byte string is the   *)
(* byte string itself, so that two digests are equal exactly when what     *)
(* was hashed is equal.                                                    *)
(***************************************************************************)
Blake3(bytes) == bytes

(***************************************************************************)
(* calculateSpanHash                                                       *)
(***************************************************************************)
HashCanonical(span) ==
    Obj(<< <<"id", Get(span, "id")>>,
           <<"trace_id", Get(span, "trace_id")>>,
           <<"parent_id", Get(span, "parent_id")>>,
           <<"type", Get(span, "type")>>,
           <<"entity", Get(span, "entity")>>,
           <<"body", Get(span, "body")>>,
           <<"started_at", Get(span, "started_at")>>,
           <<"completed_at", Get(span, "completed_at")>> >>)

\* (JSON.stringify without the array of keys: every object in its own order.)
CalculateSpanHashInOwnOrder(span) ==
    LET canonical == HashCanonical(span)
        jsonString == JSONStringify(canonical, FALSE, <<>>)
        hash == Blake3(TextEncode(jsonString))
    IN <<"blake3:">> \o BytesToHex(hash)

CalculateSpanHash(span) ==
    LET canonical == HashCanonical(span)
        jsonString == JSONStringify(canonical, TRUE, SortKeys(Keys(canonical)))
        hash == Blake3(TextEncode(jsonString))
    IN <<"blake3:">> \o BytesToHex(hash)

(***************************************************************************)
(* Ed25519 of the Web Crypto API.  A keypair is known by its number; the   *)
(* signature of a message under a private key is taken as unforgeable:     *)
(* it is a byte string that only that key and that message give.           *)
(***************************************************************************)
KeyPairs == {1, 2}

GenerateKeyPair(k) ==
    [privateKey |-> [type |-> "private", algorithm |-> "Ed25519", pair |-> k],
     publicKey |-> [type |-> "public", algorithm |-> "Ed25519", pair |-> k]]

\* crypto.subtle.exportKey('jwk', keyPair.publicKey)
ExportKeyJwk(key) == [kty |-> "OKP", crv |-> "Ed25519", x |-> key.pair]

\* crypto.subtle.importKey('jwk', publicKey, 'Ed25519', false, ['verify'])
ImportKeyJwk(jwk) ==
    IF jwk.kty = "OKP" /\ jwk.crv = "Ed25519"
    THEN [ok |-> TRUE,
          key |-> [type |-> "public", algorithm |-> "Ed25519", pair |-> jwk.x]]
    ELSE [ok |-> FALSE,
          key |-> [type |-> "none", algorithm |-> "none", pair |-> 0]]

Ed25519Sign(privateKey, data) == <<privateKey.pair>> \o data

Ed25519Verify(publicKey, signatureBytes, data) ==
    signatureBytes = <<publicKey.pair>> \o data

(***************************************************************************)
(* signSpan.  The property list given to JSON.stringify is the sorted key  *)
(* list of the span itself.                                                *)
(***************************************************************************)
SignedFields(span) ==
    Obj(<< <<"id", Get(span, "id")>>,
           <<"trace_id", Get(span, "trace_id")>>,
           <<"type", Get(span, "type")>>,
           <<"entity", Get(span, "entity")>>,
           <<"body", Get(span, "body")>>,
           <<"started_at", Get(span, "started_at")>>,
           <<"hash", Get(Get(span, "this"), "hash")>> >>)

SignCanonical(span) ==
    JSONStringify(SignedFields(span), TRUE, SortKeys(Keys(span)))

\* [ok |-> FALSE] when span.this is missing: span.this.hash throws.
SignSpan(span, privateKey) ==
    IF Get(span, "this").t # "object"
    THEN [ok |-> FALSE, value |-> <<>>]
    ELSE LET canonical == SignCanonical(span)
             data == TextEncode(canonical)
             signature == Ed25519Sign(privateKey, data)
         IN [ok |-> TRUE, value |-> <<"ed25519:">> \o BytesToHex(signature)]

(***************************************************************************)
(* verifySignature.  Everything runs inside try/catch: a throw gives false.*)
(***************************************************************************)
\* (The prefix left in place.)
KeepPrefix(string) == string

\* signature.replace('ed25519:', ''): the first occurrence is removed.
ReplacePrefix(string) ==
    IF \E i \in 1..Len(string) : string[i] = "ed25519:"
    THEN LET at == CHOOSE i \in 1..Len(string) :
                      /\ string[i] = "ed25519:"
                      /\ \A j \in 1..(i - 1) : string[j] # "ed25519:"
         IN SubSeq(string, 1, at - 1) \o SubSeq(string, at + 1, Len(string))
    ELSE string

HexValue(c) ==
    IF \E d \in 1..16 : HexDigits[d] = c
    THEN (CHOOSE d \in 1..16 : HexDigits[d] = c) - 1
    ELSE -1

\* parseInt(group, 16) stored in a Uint8Array: NaN is stored as 0.
ParseByte(group) ==
    IF HexValue(group[1]) < 0 THEN 0
    ELSE IF Len(group) = 1 \/ HexValue(group[2]) < 0 THEN HexValue(group[1])
    ELSE 16 * HexValue(group[1]) + HexValue(group[2])

\* signatureHex.match(/.{1,2}/g).map(byte => parseInt(byte, 16))
SignatureBytes(signatureHex) ==
    [i \in 1..((Len(signatureHex) + 1) \div 2) |->
        ParseByte(SubSeq(signatureHex, 2 * i - 1,
                         IF 2 * i <= Len(signatureHex) THEN 2 * i ELSE 2 * i - 1))]

\* (The payload with completed_at among the fields covered.)
VerifyCanonicalWithCompletion(span) ==
    JSONStringify(Put(SignedFields(span), "completed_at", Get(span, "completed_at")),
                  TRUE, SortKeys(Keys(span)))

VerifyCanonical(span) ==
    JSONStringify(SignedFields(span), TRUE, SortKeys(Keys(span)))

VerifySignature(span, signature, publicKey) ==
    LET signatureHex == ReplacePrefix(signature)
        imported == ImportKeyJwk(publicKey)
    IN IF Len(signatureHex) = 0 THEN FALSE          \* match gives null
       ELSE IF Get(span, "this").t # "object" THEN FALSE
       ELSE IF ~imported.ok THEN FALSE
       ELSE Ed25519Verify(imported.key, SignatureBytes(signatureHex),
                          TextEncode(VerifyCanonical(span)))

(***************************************************************************)
(* encryptApiKey and decryptApiKey: PBKDF2 and AES-GCM of the Web Crypto   *)
(* API.  The derived key is known by the password and the salt it was      *)
(* derived from.  AES-GCM is taken as a perfect authenticated cipher: what *)
(* encrypt returns (ciphertext and tag) opens only under the same key and  *)
(* nonce, byte for byte.                                                   *)
(***************************************************************************)
SaltLength == 16
IvLength == 12

\* crypto.subtle.deriveKey({name: 'PBKDF2', salt, iterations, hash}, keyMaterial, ...)
DeriveKey(password, salt) == [password |-> password, salt |-> salt]

KeyBytes(key) == <<Len(key.password)>> \o key.password \o key.salt

\* The authentication tag of what was sealed: every byte of it with the high
\* bit set (the bytes sealed are below 128).
AuthTag(bytes) == [i \in 1..Len(bytes) |-> bytes[i] + 128]

\* crypto.subtle.encrypt({name: 'AES-GCM', iv}, key, plaintext): ciphertext
\* and tag.
AesGcmEncrypt(key, iv, plaintext) ==
    LET sealed == KeyBytes(key) \o iv \o plaintext
    IN sealed \o AuthTag(sealed)

\* (Decryption without the check of the tag.)
AesGcmOpensUnchecked(key, iv, sealed) ==
    Len(sealed) % 2 = 0 /\ Len(sealed) \div 2 >= Len(KeyBytes(key) \o iv)

\* Whether crypto.subtle.decrypt accepts: the bytes are what encrypt gave
\* under this key and nonce.
AesGcmOpens(key, iv, sealed) ==
    LET head == KeyBytes(key) \o iv
        half == Len(sealed) \div 2
    IN /\ Len(sealed) % 2 = 0
       /\ half >= Len(head)
       /\ SubSeq(sealed, 1, Len(head)) = head
       /\ \A i \in 1..half : sealed[i] < 128
       /\ SubSeq(sealed, half + 1, Len(sealed)) = AuthTag(SubSeq(sealed, 1, half))

\* crypto.subtle.decrypt({name: 'AES-GCM', iv}, key, sealed), when it opens
AesGcmDecrypt(key, iv, sealed) ==
    SubSeq(sealed, Len(KeyBytes(key)) + Len(iv) + 1, Len(sealed) \div 2)

\* A byte as the decoder reads it: U+FFFD for what is no character.
CharOf(byte) == IF byte \in 1..Len(Alphabet) THEN Alphabet[byte] ELSE "U+FFFD"

\* new TextDecoder().decode(bytes): UTF-8, ignoreBOM false: a byte order mark
\* at the start is not part of the string returned.
TextDecode(bytes) ==
    LET chars == [i \in 1..Len(bytes) |-> CharOf(bytes[i])]
    IN IF Len(chars) > 0 /\ chars[1] = "U+FEFF" THEN Tail(chars) ELSE chars

EncryptApiKey(apiKey, userId, salt, iv) ==
    LET encryptionKey == DeriveKey(TextEncode(userId), salt)
        encrypted == AesGcmEncrypt(encryptionKey, iv, TextEncode(apiKey))
        combined == salt \o iv \o encrypted
    IN BytesToHex(combined)

\* hexToBytes of @noble/hashes: throws on an odd length or a non-hex digit.
HexToBytes(hex) ==
    IF Len(hex) % 2 # 0 \/ \E i \in 1..Len(hex) : HexValue(hex[i]) < 0
    THEN [ok |-> FALSE, value |-> <<>>]
    ELSE [ok |-> TRUE,
          value |-> [i \in 1..(Len(hex) \div 2) |->
                        16 * HexValue(hex[2 * i - 1]) + HexValue(hex[2 * i])]]

\* data.slice(from, to): the bytes at offsets from .. to - 1, cut at the end.
ByteSlice(data, from, to) ==
    LET last == IF to < Len(data) THEN to ELSE Len(data)
    IN IF from >= last THEN <<>> ELSE SubSeq(data, from + 1, last)

\* The offsets decryptApiKey reads the salt and the nonce up to.
SaltEnd == 16
IvEnd == 28

\* [ok |-> FALSE] when hexToBytes throws or crypto.subtle.decrypt rejects.
DecryptApiKey(encrypted, userId) ==
    LET data == HexToBytes(encrypted).value
        salt == ByteSlice(data, 0, SaltEnd)
        iv == ByteSlice(data, SaltEnd, IvEnd)
        ciphertext == ByteSlice(data, IvEnd, Len(data))
        decryptionKey == DeriveKey(TextEncode(userId), salt)
    IN IF HexToBytes(encrypted).ok /\ AesGcmOpens(decryptionKey, iv, ciphertext)
       THEN [ok |-> TRUE,
             value |-> TextDecode(AesGcmDecrypt(decryptionKey, iv, ciphertext))]
       ELSE [ok |-> FALSE, value |-> <<>>]

\* detectProvider
DetectProvider(apiKey) ==
    IF Len(apiKey) > 0 /\ apiKey[1] = "sk-ant-" THEN "anthropic"
    ELSE IF Len(apiKey) > 0 /\ apiKey[1] \in {"sk-", "sk-proj-"} THEN "openai"
    ELSE "ollama"

(***************************************************************************)
(* The spans the callers build.                                            *)
(***************************************************************************)
\* The span literal of handleSaveContract.
ContractDraft(id, traceId, description, now) ==
    Obj(<< <<"id", Atom(id)>>,
           <<"trace_id", Atom(traceId)>>,
           <<"type", Atom("contract.created")>>,
           <<"entity", Atom("minicontrato")>>,
           <<"body", Obj(<< <<"action", Atom("create_contract")>>,
                            <<"input", Obj(<< <<"description", description>> >>)>>,
                            <<"output", Obj(<< <<"success", True>> >>)>> >>)>>,
           <<"started_at", Atom(now)>>,
           <<"completed_at", Atom(now)>>,
           <<"this", Obj(<< <<"hash", Str(<<>>)>>,
                            <<"version", Atom("1.0.0")>> >>)>> >>)

\* The span literal of registerUser.
RegistrationDraft(id, userId, name, now) ==
    Obj(<< <<"id", Atom(id)>>,
           <<"trace_id", Str(<<"onboarding-">> \o userId)>>,
           <<"type", Atom("user.registered")>>,
           <<"entity", Atom("user")>>,
           <<"body", Obj(<< <<"action", Atom("register_user")>>,
                            <<"input", Obj(<< <<"name", Str(name)>>,
                                              <<"user_id", Str(userId)>> >>)>>,
                            <<"output", Obj(<< <<"success", True>>,
                                               <<"user_id", Str(userId)>> >>)>> >>)>>,
           <<"started_at", Atom(now)>>,
           <<"completed_at", Atom(now)>>,
           <<"this", Obj(<< <<"hash", Str(<<>>)>>,
                            <<"version", Atom("1.0.0")>> >>)>> >>)

\* span.this.hash = hash
\* (The assignment left out: this.hash stays as the draft had it.)
SetHashSkipped(span, hash) == span

\* span.this.hash = hash
SetHash(span, hash) == Put(span, "this", Put(Get(span, "this"), "hash", Str(hash)))

\* span.confirmed_by = {signature, domain, timestamp, signer_id}
ConfirmedBy(signature, now, signerId) ==
    Obj(<< <<"signature", Str(signature)>>,
           <<"domain", Atom("minicontratos.local")>>,
           <<"timestamp", Atom(now)>>,
           <<"signer_id", Str(signerId)>> >>)

\* The drafts the callers build, and two more a caller may build: one with a
\* parent and no completion time, one with its keys set in another order.
InitialDrafts ==
    { ContractDraft("s1", "tA", Atom("d1"), "t1"),
      RegistrationDraft("s2", <<"user-", "ana", "-", "x1">>, <<"ana">>, "t2"),
      Put(Delete(ContractDraft("s1", "tA", Atom("d1"), "t1"), "completed_at"),
          "parent_id", Atom("s3")),
      Obj(Reverse(ContractDraft("s3", "tB", Atom("d2"), "t3").o)) }

(***************************************************************************)
(* Strings compare as JavaScript and IndexedDB compare them: by code       *)
(* units, a proper prefix before the longer string.                        *)
(***************************************************************************)
ChunkRank(c) == CHOOSE r \in 1..Len(ValueAtoms) : ValueAtoms[r] = c

StrLess(a, b) ==
    \E i \in 1..(Len(a) + 1) :
        /\ i <= Len(b)
        /\ \A j \in 1..(i - 1) : a[j] = b[j]
        /\ (i = Len(a) + 1 \/ ChunkRank(a[i]) < ChunkRank(b[i]))

\* x >= y and x <= y of JavaScript: false when an operand is undefined.
JsGeq(x, y) == x.t = "string" /\ y.t = "string" /\ ~StrLess(x.s, y.s)
JsLeq(x, y) == x.t = "string" /\ y.t = "string" /\ ~StrLess(y.s, x.s)

\* if (x): undefined and the empty string are falsy.
Truthy(x) == x.t # "undefined" /\ ~(x.t = "string" /\ x.s = <<>>)

(***************************************************************************)
(* The object store 'spans' (keyPath 'id') and its indexes.  A store holds *)
(* one record per key; a read of several records gives them in ascending   *)
(* order of the index key, then of the primary key.                        *)
(***************************************************************************)
SpanId(span) == Get(span, "id").s

\* (The records in descending order of their keys.)
RECURSIVE InKeyOrderDescending(_)
InKeyOrderDescending(records) ==
    IF records = {} THEN <<>>
    ELSE LET first == CHOOSE r \in records :
                          \A q \in records \ {r} : StrLess(SpanId(q), SpanId(r))
         IN <<first>> \o InKeyOrderDescending(records \ {first})

RECURSIVE InKeyOrder(_)
InKeyOrder(records) ==
    IF records = {} THEN <<>>
    ELSE LET first == CHOOSE r \in records :
                          \A q \in records \ {r} : StrLess(SpanId(r), SpanId(q))
         IN <<first>> \o InKeyOrder(records \ {first})

\* db.getAll('spans')
GetAll(store) == InKeyOrder(store)

\* db.getAllFromIndex('spans', index, key): the index holds the records whose
\* indexed field is a string.
GetAllFromIndex(store, field, key) ==
    InKeyOrder({r \in store : Get(r, field).t = "string" /\ Get(r, field) = key})

\* (A store without the uniqueness of the key.)
AddNeverFails(store, span) == FALSE

\* db.add('spans', span): ConstraintError when the key is in the store.
AddFails(store, span) == \E r \in store : SpanId(r) = SpanId(span)

\* Array.prototype.filter is SelectSeq.

\* array.slice(0, n) for n >= 0
Slice(seq, n) == SubSeq(seq, 1, IF n < Len(seq) THEN n ELSE Len(seq))

(***************************************************************************)
(* queryLedger.  A filter field is undefined or a string; limit is given   *)
(* or not.                                                                 *)
(***************************************************************************)
NoLimit == [given |-> FALSE, n |-> 0]
Limit(n) == [given |-> TRUE, n |-> n]

\* if (filter.limit): a limit of 0 is falsy.
TruthyLimit(limit) == limit.given /\ limit.n # 0

ScanIndex(store, filter) ==
    IF Truthy(filter.trace_id)
    THEN GetAllFromIndex(store, "trace_id", filter.trace_id)
    ELSE IF Truthy(filter.type)
    THEN GetAllFromIndex(store, "type", filter.type)
    ELSE IF Truthy(filter.entity)
    THEN GetAllFromIndex(store, "entity", filter.entity)
    ELSE GetAll(store)

ApplyFrom(seq, filter) ==
    IF Truthy(filter.from)
    THEN SelectSeq(seq, LAMBDA s : JsGeq(Get(s, "started_at"), filter.from))
    ELSE seq

ApplyTo(seq, filter) ==
    IF Truthy(filter.to)
    THEN SelectSeq(seq, LAMBDA s : JsLeq(Get(s, "started_at"), filter.to))
    ELSE seq

ApplyLimit(seq, filter) ==
    IF TruthyLimit(filter.limit) THEN Slice(seq, filter.limit.n) ELSE seq

QueryLedgerResult(store, filter) ==
    ApplyLimit(ApplyTo(ApplyFrom(ScanIndex(store, filter), filter), filter), filter)

(***************************************************************************)
(* exportLedger                                                            *)
(***************************************************************************)
RECURSIVE Join(_, _)
Join(strings, separator) ==
    IF Len(strings) = 0 THEN <<>>
    ELSE IF Len(strings) = 1 THEN strings[1]
    ELSE strings[1] \o <<separator>> \o Join(Tail(strings), separator)

\* JSON.stringify(value, null, 2): every property and array element on a line
\* of its own, indented by two spaces per level.
Indent(depth) == <<"\n">> \o [i \in 1..depth |-> "  "]

RECURSIVE JSONPretty(_, _)
RECURSIVE PrettyProperties(_, _, _, _)

PrettyProperties(v, K, i, depth) ==
    IF i > Len(K) THEN <<>>
    ELSE (IF i > 1 THEN <<",">> ELSE <<>>)
         \o Indent(depth) \o <<"\"", K[i], "\"", ":", " ">>
         \o JSONPretty(Get(v, K[i]), depth)
         \o PrettyProperties(v, K, i + 1, depth)

JSONPretty(v, depth) ==
    CASE v.t = "string" -> <<"\"">> \o v.s \o <<"\"">>
      [] v.t = "boolean" -> v.s
      [] v.t = "object" ->
            LET K == SelectSeq(Keys(v), LAMBDA k : Get(v, k).t # "undefined")
            IN IF Len(K) = 0 THEN <<"{", "}">>
               ELSE <<"{">> \o PrettyProperties(v, K, 1, depth + 1)
                    \o Indent(depth) \o <<"}">>
      [] OTHER -> <<>>

RECURSIVE PrettyElements(_, _)
PrettyElements(array, i) ==
    IF i > Len(array) THEN <<>>
    ELSE (IF i > 1 THEN <<",">> ELSE <<>>)
         \o Indent(1) \o JSONPretty(array[i], 1)
         \o PrettyElements(array, i + 1)

PrettyArray(array) ==
    IF Len(array) = 0 THEN <<"[", "]">>
    ELSE <<"[">> \o PrettyElements(array, 1) \o Indent(0) \o <<"]">>

\* String(x) of an array element in Array.prototype.join: undefined gives ''.
Cell(x) == IF x.t = "undefined" THEN <<>> ELSE x.s

CsvHeaders == <<"id", "trace_id", "type", "entity", "started_at", "hash", "signature">>

\* s.confirmed_by?.signature || ''
SignatureOrEmpty(s) ==
    IF Get(s, "confirmed_by").t = "undefined" THEN Str(<<>>)
    ELSE IF Truthy(Get(Get(s, "confirmed_by"), "signature"))
    THEN Get(Get(s, "confirmed_by"), "signature")
    ELSE Str(<<>>)

CsvRow(s) ==
    <<Cell(Get(s, "id")), Cell(Get(s, "trace_id")), Cell(Get(s, "type")),
      Cell(Get(s, "entity")), Cell(Get(s, "started_at")),
      Cell(Get(Get(s, "this"), "hash")), Cell(SignatureOrEmpty(s))>>

NoBlob == [type |-> "", text |-> <<>>]

ExportFormats == {"ndjson", "json", "csv", "xml"}

\* (No format is refused.)
ExportNeverFails(format) == FALSE

ExportFails(format) == format \notin {"ndjson", "json", "csv"}

ExportLedgerResult(store, format) ==
    LET allSpans == GetAll(store)
    IN CASE format = "ndjson" ->
              [type |-> "application/x-ndjson",
               text |-> Join([i \in 1..Len(allSpans) |->
                                 JSONStringify(allSpans[i], FALSE, <<>>)], "\n")
                        \o <<"\n">>]
         [] format = "json" ->
              [type |-> "application/json", text |-> PrettyArray(allSpans)]
         [] format = "csv" ->
              [type |-> "text/csv",
               text |-> Join([i \in 1..(Len(allSpans) + 1) |->
                                 IF i = 1
                                 THEN Join([j \in 1..Len(CsvHeaders) |-> <<CsvHeaders[j]>>], ",")
                                 ELSE Join(CsvRow(allSpans[i - 1]), ",")], "\n")]
         [] OTHER -> NoBlob

(***************************************************************************)
(* What every operation records, and the state before anything ran.        *)
(***************************************************************************)
NoFilter ==
    [trace_id |-> Undefined, type |-> Undefined, entity |-> Undefined,
     from |-> Undefined, to |-> Undefined, limit |-> NoLimit]

NoResult == [spans |-> <<>>, blob |-> NoBlob]

Op(name, span, filter, format) ==
    [op |-> name, span |-> span, filter |-> filter, format |-> format]

\* No call of verifySignature yet.
NoInput == [signature |-> Undefined, publicKey |-> Undefined]

\* No API key was encrypted.
NotDecrypted == [done |-> FALSE, ok |-> FALSE, value |-> <<>>]

VaultIdle ==
    /\ secret = <<>>
    /\ scope = <<>>
    /\ blob = <<>>
    /\ presented = <<>>
    /\ openScope = <<>>
    /\ decrypted = NotDecrypted

\* No appendToLedger call is under way and no connection is cached.
CallsIdle ==
    /\ calls = <<>>
    /\ dbInstance = 0

\* No id was generated; the application is not loaded.
IdsIdle ==
    /\ clock = [hi |-> 0, lo |-> 0]
    /\ idLog = <<>>

\* useState's initial values in Onboarding.
OnboardingMounted ==
    /\ step = "welcome"
    /\ typedName = <<>>
    /\ typedKey = <<>>
    /\ loading = FALSE
    /\ error = ""
    /\ submitted = <<>>

\* useState's initial values in CreateContract.
CreateContractMounted ==
    /\ typedDescription = <<>>
    /\ generating = FALSE
    /\ conversation = <<>>
    /\ createError = ""

\* No call of handleSubmit is under way and none has called callLLM.
CreateIdle ==
    /\ CreateContractMounted
    /\ pending = <<>>
    /\ sent = <<>>

AppIdle ==
    /\ isAuthenticated = "null"
    /\ path = "/"
    /\ arrivedBy = "load"
    /\ timer = "none"
    /\ OnboardingMounted
    /\ registered = <<>>
    /\ CreateIdle

\* The stores of a fresh installation, before anything ran.
StoresEmpty ==
    /\ spans = {}
    /\ contracts = {}
    /\ users = {}
    /\ credentials = {}
    /\ identity = {}
    /\ session = {}
    /\ appendLog = <<>>
    /\ lastOp = [op |-> "none", span |-> Undefined, filter |-> NoFilter, format |-> ""]
    /\ lastResult = [spans |-> <<>>, blob |-> NoBlob]
    /\ lastError = "none"
    /\ prevSpans = {}

(***************************************************************************)
(* SpecCrypto: one span draft is built, hashed and signed as the callers   *)
(* do (registerUser, handleSaveContract); afterwards the object is         *)
(* changed, hashed again and verified.                                     *)
(***************************************************************************)
CryptoInit ==
    /\ orig \in InitialDrafts
    /\ cur = orig
    /\ origHash = <<>>
    /\ curHash = <<>>
    /\ sig = <<>>
    /\ signKey = 0
    /\ verifyKey = 0
    /\ verifyResult = "none"
    /\ edits = 0
    /\ verifyInput = NoInput
    /\ StoresEmpty
    /\ VaultIdle
    /\ CallsIdle
    /\ IdsIdle
    /\ AppIdle

\* span.this.hash = await calculateSpanHash(span)
HashDraft ==
    /\ origHash = <<>>
    /\ origHash' = CalculateSpanHash(orig)
    /\ orig' = SetHash(orig, origHash')
    /\ cur' = orig'
    /\ UNCHANGED <<curHash, sig, signKey, verifyKey, verifyResult, edits,
                   verifyInput, storeVars, vaultVars, callVars, idVars, appVars>>

\* const signature = await signSpan(span, keyPair.privateKey)
SignDraft ==
    /\ origHash # <<>>
    /\ sig = <<>>
    /\ cur = orig
    /\ \E k \in KeyPairs :
          LET signed == SignSpan(orig, GenerateKeyPair(k).privateKey)
          IN /\ signed.ok
             /\ sig' = signed.value
             /\ signKey' = k
    /\ UNCHANGED <<orig, cur, origHash, curHash, verifyKey, verifyResult, edits,
                   verifyInput, storeVars, vaultVars, callVars, idVars, appVars>>

Edited(span) ==
    /\ origHash # <<>>
    /\ edits < MaxEdits
    /\ cur' = span
    /\ cur' # cur
    /\ edits' = edits + 1
    /\ curHash' = <<>>
    /\ verifyKey' = 0
    /\ verifyResult' = "none"
    /\ UNCHANGED <<orig, origHash, sig, signKey, verifyInput, storeVars, vaultVars,
                   callVars, idVars, appVars>>

TopFields ==
    {"id", "trace_id", "parent_id", "type", "entity", "started_at", "completed_at"}

\* A top-level field is set to another value.
SetTopField == \E k \in TopFields : Edited(Put(cur, k, Atom("v1")))

\* An optional top-level field is set to undefined, or deleted.
ClearOptionalField ==
    \E k \in {"parent_id", "completed_at"} :
        \/ Edited(Put(cur, k, Undefined))
        \/ Edited(Delete(cur, k))

\* duration_ms is filled in after the span completed.
SetDuration == Edited(Put(cur, "duration_ms", Atom("v1")))

\* A field of the body is set to another value.
SetBodyField ==
    \E k \in {"action", "input", "output"} :
        \E x \in {Atom("v1"), Obj(<< <<"description", Atom("d2")>> >>), Undefined} :
            /\ ~(k = "action" /\ x.t # "string")
            /\ Edited(Put(cur, "body", Put(Get(cur, "body"), k, x)))

\* this.hash is replaced: by another digest, or by the digest of the span as
\* it now is.
ReplaceHash ==
    \E h \in {<<"blake3:", "0", "0">>, CalculateSpanHash(cur)} :
        Edited(SetHash(cur, h))

\* The same fields, set in the opposite order.
ReorderKeys ==
    \/ Edited(Obj(Reverse(cur.o)))
    \/ Edited(Put(cur, "body", Obj(Reverse(Get(cur, "body").o))))

\* (span as Span).confirmed_by = {...}, as registerUser does after signing.
AttachConfirmedBy ==
    /\ sig # <<>>
    /\ Edited(Put(cur, "confirmed_by",
                  ConfirmedBy(sig, "t3", <<"user-", "ana", "-", "x1">>)))

\* calculateSpanHash of the span as it now is.
Rehash ==
    /\ origHash # <<>>
    /\ curHash = <<>>
    /\ curHash' = CalculateSpanHash(cur)
    /\ UNCHANGED <<orig, cur, origHash, sig, signKey, verifyKey, verifyResult,
                   edits, verifyInput, storeVars, vaultVars, callVars, idVars, appVars>>

\* verifySignature(span, signature, publicKey) with the public key of keypair k.
Verify ==
    /\ sig # <<>>
    /\ verifyResult = "none"
    /\ \E k \in KeyPairs :
          /\ verifyKey' = k
          /\ verifyResult' =
                IF VerifySignature(cur, sig, ExportKeyJwk(GenerateKeyPair(k).publicKey))
                THEN "true" ELSE "false"
    /\ UNCHANGED <<orig, cur, origHash, curHash, sig, signKey, edits, verifyInput,
                   storeVars, vaultVars, callVars, idVars, appVars>>

CryptoNext ==
    \/ HashDraft
    \/ SignDraft
    \/ SetTopField
    \/ ClearOptionalField
    \/ SetDuration
    \/ SetBodyField
    \/ ReplaceHash
    \/ ReorderKeys
    \/ AttachConfirmedBy
    \/ Rehash
    \/ Verify

SpecCrypto == CryptoInit /\ [][CryptoNext]_vars

(***************************************************************************)
(* Spec: the ledger.  Callers append spans, query and export.              *)
(***************************************************************************)
\* No span was built, hashed or signed outside the stores' callers.
CryptoIdle ==
    /\ orig = Undefined
    /\ cur = Undefined
    /\ origHash = <<>>
    /\ curHash = <<>>
    /\ sig = <<>>
    /\ signKey = 0
    /\ verifyKey = 0
    /\ verifyResult = "none"
    /\ edits = 0
    /\ verifyInput = NoInput

\* (db.put in the place of db.add: the stored record is replaced.)
AddToStoreAsPut(store, span) ==
    {r \in store : SpanId(r) # SpanId(span)} \cup {span}

\* db.add('spans', span): what the store holds afterwards.
AddToStore(store, span) == IF AddFails(store, span) THEN store ELSE store \cup {span}

\* appendToLedger(span)
AppendToLedger(span) ==
    /\ lastOp' = Op("appendToLedger", span, NoFilter, "")
    /\ prevSpans' = spans
    /\ spans' = AddToStore(spans, span)
    /\ lastError' = IF AddFails(spans, span) THEN "ConstraintError" ELSE "none"
    /\ appendLog' = IF AddFails(spans, span) THEN appendLog
                    ELSE Append(appendLog, SpanId(span))
    /\ lastResult' = NoResult

\* queryLedger(filter)
QueryLedger(filter) ==
    /\ lastOp' = Op("queryLedger", Undefined, filter, "")
    /\ prevSpans' = spans
    /\ lastResult' = [spans |-> QueryLedgerResult(spans, filter), blob |-> NoBlob]
    /\ lastError' = "none"
    /\ UNCHANGED <<spans, appendLog>>

\* exportLedger(format)
ExportLedger(format) ==
    /\ lastOp' = Op("exportLedger", Undefined, NoFilter, format)
    /\ prevSpans' = spans
    /\ lastResult' = [spans |-> <<>>, blob |-> ExportLedgerResult(spans, format)]
    /\ lastError' = IF ExportFails(format) THEN "Error" ELSE "none"
    /\ UNCHANGED <<spans, appendLog>>

\* span.this.hash = await calculateSpanHash(span)
Hashed(draft) == SetHash(draft, CalculateSpanHash(draft))

SpanIds == {"s1", "s2", "s3"}

\* The spans the ledger's callers append: hashed drafts with any of three
\* ids, of two traces, two types and three start times, and a span whose
\* entity holds a comma.
LedgerSpans ==
    UNION { { Hashed(ContractDraft(id, "tA", Atom("d1"), "t1")),
              Hashed(ContractDraft(id, "tA", Atom("d1"), "t3")),
              Hashed(ContractDraft(id, "tB", Atom("d2"), "t2")),
              Hashed(ContractDraft(id, "tB", Atom("d2"), "t3")),
              Hashed(Put(RegistrationDraft(id, <<"user-", "ana", "-", "x1">>,
                                           <<"ana">>, "t2"),
                         "trace_id", Atom("tA"))),
              Hashed(Put(ContractDraft(id, "tB", Atom("d1"), "t1"),
                         "entity", Str(<<"user", ",", "v1">>))) } : id \in SpanIds }

Limits == {NoLimit} \cup {Limit(n) : n \in 0..MaxLimit}

\* The filters the callers give: by trace, time bounds and limit, or by
\* trace, type and entity.  A string filter may be the empty string.
LedgerFilters ==
    {[trace_id |-> tr, type |-> Undefined, entity |-> Undefined,
      from |-> f, to |-> u, limit |-> l] :
        tr \in {Undefined, Str(<<>>), Atom("tA"), Atom("tB")},
        f \in {Undefined, Atom("t2")},
        u \in {Undefined, Str(<<>>), Atom("t2")},
        l \in Limits}
    \cup
    {[trace_id |-> tr, type |-> ty, entity |-> en,
      from |-> Undefined, to |-> Undefined, limit |-> NoLimit] :
        tr \in {Undefined, Str(<<>>), Atom("tA")},
        ty \in {Undefined, Str(<<>>), Atom("contract.created")},
        en \in {Undefined, Atom("user")}}

LedgerInit ==
    /\ CryptoIdle
    /\ StoresEmpty
    /\ VaultIdle
    /\ CallsIdle
    /\ IdsIdle
    /\ AppIdle

\* A read, or an append that failed, leaves every store as it was: the states
\* after it differ from the state before it only in what was returned.  Such
\* an operation is explored from every state of the stores, and nothing is
\* explored after it; every state of the stores is still reached.
StoresSettled ==
    /\ lastOp.op \notin {"queryLedger", "exportLedger"}
    /\ ~(lastOp.op = "appendToLedger" /\ lastError # "none")

LedgerAppend ==
    /\ StoresSettled
    /\ \E span \in LedgerSpans : AppendToLedger(span)
    /\ UNCHANGED <<cryptoVars, vaultVars, callVars, idVars, appVars, contracts, users, credentials, identity, session>>

LedgerQuery ==
    /\ StoresSettled
    /\ \E filter \in LedgerFilters : QueryLedger(filter)
    /\ UNCHANGED <<cryptoVars, vaultVars, callVars, idVars, appVars, contracts, users, credentials, identity, session>>

LedgerExport ==
    /\ StoresSettled
    /\ \E format \in ExportFormats : ExportLedger(format)
    /\ UNCHANGED <<cryptoVars, vaultVars, callVars, idVars, appVars, contracts, users, credentials, identity, session>>

Next ==
    \/ LedgerAppend
    \/ LedgerQuery
    \/ LedgerExport

Spec == LedgerInit /\ [][Next]_vars

(***************************************************************************)
(* The other object stores: db.put replaces the record under the key.      *)
(***************************************************************************)
PutById(store, record) == {r \in store : r.id # record.id} \cup {record}

PutByUserId(store, record) ==
    {r \in store : r.user_id # record.user_id} \cup {record}

\* saveContract(contract)
SaveContract(contract) == contracts' = PutById(contracts, contract)

\* saveUser(user)
SaveUser(user) == users' = PutById(users, user)

\* saveCredential(credential)
SaveCredential(credential) == credentials' = PutByUserId(credentials, credential)

\* saveIdentity(identity)
SaveIdentity(record) == identity' = PutById(identity, record)

\* saveSession(session): stored as {...session, id: 'current'}
SaveSession(record) ==
    session' = PutById(session,
                       [id |-> "current", user_id |-> record.user_id,
                        started_at |-> record.started_at,
                        last_activity |-> record.last_activity])

\* clearSession()
ClearSession == session' = {r \in session : r.id # "current"}

(***************************************************************************)
(* registerUser(name, apiKey).  Math.random, the salt, the nonce, the      *)
(* keypair and generateId are the call's random draws; keygen tells        *)
(* whether generateKeyPair succeeds.  The writes made before a throw stay. *)
(***************************************************************************)
\* name.toLowerCase().replace(/[^a-z0-9]/g, '')
LowerCase(c) == IF c = "Ana" THEN "ana" ELSE c

Sanitize(name) ==
    SelectSeq([i \in 1..Len(name) |-> LowerCase(name[i])],
              LAMBDA c : c \notin {" ", "-"})

UserIdOf(name, shortId) == <<"user-">> \o Sanitize(name) \o <<"-", shortId>>

\* (Signed with the private key of the other keypair, not the one the call
\* generated.)
RegistrationSpanOtherKey(id, userId, name, now, keyPair) ==
    LET draft == RegistrationDraft(id, userId, name, now)
        hashed == SetHash(draft, CalculateSpanHash(draft))
        other == CHOOSE k \in KeyPairs : k # keyPair.privateKey.pair
        signature == SignSpan(hashed, GenerateKeyPair(other).privateKey).value
    IN Put(hashed, "confirmed_by", ConfirmedBy(signature, now, userId))

\* auth.ts 60-89: the literal, its hash, then the signature over the hashed
\* span.
RegistrationSpan(id, userId, name, now, keyPair) ==
    LET draft == RegistrationDraft(id, userId, name, now)
        hashed == SetHash(draft, CalculateSpanHash(draft))
        signature == SignSpan(hashed, keyPair.privateKey).value
    IN Put(hashed, "confirmed_by", ConfirmedBy(signature, now, userId))

RegisterUser(name, apiKey, shortId, salt, iv, k, id, now, keygen) ==
    LET userId == UserIdOf(name, shortId)
        user == [id |-> userId, name |-> name, created_at |-> now]
        credential == [user_id |-> userId,
                       encrypted_key |-> EncryptApiKey(apiKey, userId, salt, iv),
                       provider |-> DetectProvider(apiKey),
                       created_at |-> now]
        keyPair == GenerateKeyPair(k)
        record == [id |-> "self", user_id |-> userId,
                   public_key |-> ExportKeyJwk(keyPair.publicKey),
                   private_key_handle |-> keyPair.privateKey,
                   created_at |-> now]
        span == RegistrationSpan(id, userId, name, now, keyPair)
    IN /\ SaveUser(user)
       /\ SaveCredential(credential)
       /\ prevSpans' = spans
       /\ lastResult' = NoResult
       /\ IF keygen
          THEN /\ SaveIdentity(record)
               /\ lastOp' = Op("registerUser", span, NoFilter, "")
               /\ spans' = AddToStore(spans, span)
               /\ lastError' = IF AddFails(spans, span) THEN "ConstraintError"
                               ELSE "none"
               /\ appendLog' = IF AddFails(spans, span) THEN appendLog
                               ELSE Append(appendLog, SpanId(span))
          ELSE /\ lastOp' = Op("registerUser", Undefined, NoFilter, "")
               /\ lastError' = "NotSupportedError"
               /\ UNCHANGED <<identity, spans, appendLog>>

\* createSession(userId)
CreateSession(userId, now) ==
    SaveSession([user_id |-> userId, started_at |-> now, last_activity |-> now])

(***************************************************************************)
(* handleSaveContract of the CreateContract page.  firstMessage is         *)
(* conversation[0]?.content; the two ids are generateId's draws.           *)
(***************************************************************************)
ContractSpan(id, traceId, firstMessage, now) ==
    LET description == IF Truthy(firstMessage) THEN firstMessage
                       ELSE Atom("Novo contrato")
        draft == ContractDraft(id, traceId, description, now)
    IN SetHash(draft, CalculateSpanHash(draft))

\* (saveContract not waiting for the append: the contract is stored whether
\* the append succeeded or not.)
HandleSaveContractUnawaited(traceId, id, firstMessage, now) ==
    LET span == ContractSpan(id, traceId, firstMessage, now)
        contract == [id |-> traceId, title |-> "Novo Contrato", parties |-> <<>>,
                     status |-> "draft", created_at |-> now,
                     spans |-> <<id>>, last_updated |-> now]
    IN /\ lastOp' = Op("handleSaveContract", span, NoFilter, "")
       /\ prevSpans' = spans
       /\ lastResult' = NoResult
       /\ spans' = AddToStore(spans, span)
       /\ appendLog' = IF AddFails(spans, span) THEN appendLog
                       ELSE Append(appendLog, SpanId(span))
       /\ lastError' = IF AddFails(spans, span) THEN "ConstraintError" ELSE "none"
       /\ SaveContract(contract)

HandleSaveContract(traceId, id, firstMessage, now) ==
    LET span == ContractSpan(id, traceId, firstMessage, now)
        contract == [id |-> traceId, title |-> "Novo Contrato", parties |-> <<>>,
                     status |-> "draft", created_at |-> now,
                     spans |-> <<id>>, last_updated |-> now]
    IN /\ lastOp' = Op("handleSaveContract", span, NoFilter, "")
       /\ prevSpans' = spans
       /\ lastResult' = NoResult
       /\ spans' = AddToStore(spans, span)
       /\ appendLog' = IF AddFails(spans, span) THEN appendLog
                       ELSE Append(appendLog, SpanId(span))
       /\ IF AddFails(spans, span)
          THEN lastError' = "ConstraintError" /\ UNCHANGED contracts
          ELSE lastError' = "none" /\ SaveContract(contract)

(***************************************************************************)
(* SpecStores: every exported operation of the stores, registerUser and    *)
(* handleSaveContract, in any order.                                       *)
(***************************************************************************)
Salts == {[i \in 1..SaltLength |-> 1]}
Ivs == {[i \in 1..IvLength |-> 2]}

AppIds == {"s1", "s2"}

\* A write that is not an append: the operation is recorded, the ledger is
\* not touched.
Recorded(name) ==
    /\ lastOp' = Op(name, Undefined, NoFilter, "")
    /\ prevSpans' = spans
    /\ lastResult' = NoResult
    /\ lastError' = "none"
    /\ UNCHANGED <<spans, appendLog>>

StoresAppend ==
    /\ StoresSettled
    /\ \E span \in {Hashed(ContractDraft("s1", "tB", Atom("d2"), "t2"))} :
          AppendToLedger(span)
    /\ UNCHANGED <<cryptoVars, vaultVars, callVars, idVars, appVars, contracts, users, credentials, identity, session>>

StoresQuery ==
    /\ StoresSettled
    /\ \E filter \in {NoFilter, [NoFilter EXCEPT !.trace_id = Atom("tA")]} :
          QueryLedger(filter)
    /\ UNCHANGED <<cryptoVars, vaultVars, callVars, idVars, appVars, contracts, users, credentials, identity, session>>

StoresExport ==
    /\ StoresSettled
    /\ \E format \in ExportFormats : ExportLedger(format)
    /\ UNCHANGED <<cryptoVars, vaultVars, callVars, idVars, appVars, contracts, users, credentials, identity, session>>

StoresSaveContract ==
    /\ StoresSettled
    /\ SaveContract([id |-> "tA", title |-> "Novo Contrato", parties |-> <<>>,
                     status |-> "active", created_at |-> "t1",
                     spans |-> <<"s1", "s3">>, last_updated |-> "t2"])
    /\ Recorded("saveContract")
    /\ UNCHANGED <<cryptoVars, vaultVars, callVars, idVars, appVars, users, credentials, identity, session>>

StoresSaveUser ==
    /\ StoresSettled
    /\ SaveUser([id |-> <<"user-", "bob", "-", "x1">>, name |-> <<"bob">>,
                 created_at |-> "t1"])
    /\ Recorded("saveUser")
    /\ UNCHANGED <<cryptoVars, vaultVars, callVars, idVars, appVars, contracts, credentials, identity, session>>

StoresSaveCredential ==
    /\ StoresSettled
    /\ \E userId \in {<<"user-", "bob", "-", "x1">>} :
       \E salt \in Salts : \E iv \in Ivs :
          SaveCredential([user_id |-> userId,
                          encrypted_key |-> EncryptApiKey(<<"sk-", "k2">>, userId, salt, iv),
                          provider |-> DetectProvider(<<"sk-", "k2">>),
                          created_at |-> "t1"])
    /\ Recorded("saveCredential")
    /\ UNCHANGED <<cryptoVars, vaultVars, callVars, idVars, appVars, contracts, users, identity, session>>

StoresSaveIdentity ==
    /\ StoresSettled
    /\ SaveIdentity([id |-> "self", user_id |-> <<"user-", "bob", "-", "x1">>,
                     public_key |-> ExportKeyJwk(GenerateKeyPair(2).publicKey),
                     private_key_handle |-> GenerateKeyPair(2).privateKey,
                     created_at |-> "t1"])
    /\ Recorded("saveIdentity")
    /\ UNCHANGED <<cryptoVars, vaultVars, callVars, idVars, appVars, contracts, users, credentials, session>>

StoresSaveSession ==
    /\ StoresSettled
    /\ \E userId \in {<<"user-", "ana", "-", "x2">>} :
          CreateSession(userId, "t1")
    /\ Recorded("saveSession")
    /\ UNCHANGED <<cryptoVars, vaultVars, callVars, idVars, appVars, contracts, users, credentials, identity>>

StoresClearSession ==
    /\ StoresSettled
    /\ ClearSession
    /\ Recorded("clearSession")
    /\ UNCHANGED <<cryptoVars, vaultVars, callVars, idVars, appVars, contracts, users, credentials, identity>>

\* What one call of registerUser generates for itself: its key pair and the
\* id of its registration span.
Registrations == {[pair |-> 1, id |-> "s1"], [pair |-> 2, id |-> "s2"]}

StoresRegisterUser ==
    /\ StoresSettled
    /\ \E shortId \in {"x1"} : \E salt \in Salts : \E iv \in Ivs :
       \E fresh \in Registrations : \E keygen \in BOOLEAN :
          RegisterUser(<<"Ana">>, <<"sk-ant-", "k1">>, shortId, salt, iv,
                       fresh.pair, fresh.id, "t2", keygen)
    /\ UNCHANGED <<cryptoVars, vaultVars, callVars, idVars, appVars, contracts, session>>

StoresHandleSaveContract ==
    /\ StoresSettled
    /\ \E traceId \in {"tA"} : \E id \in AppIds :
       \E firstMessage \in {Undefined} :
          HandleSaveContract(traceId, id, firstMessage, "t3")
    /\ UNCHANGED <<cryptoVars, vaultVars, callVars, idVars, appVars, users, credentials, identity, session>>

StoresNext ==
    \/ StoresAppend
    \/ StoresQuery
    \/ StoresExport
    \/ StoresSaveContract
    \/ StoresSaveUser
    \/ StoresSaveCredential
    \/ StoresSaveIdentity
    \/ StoresSaveSession
    \/ StoresClearSession
    \/ StoresRegisterUser
    \/ StoresHandleSaveContract

StoresInit ==
    /\ CryptoIdle
    /\ StoresEmpty
    /\ VaultIdle
    /\ CallsIdle
    /\ IdsIdle
    /\ AppIdle

SpecStores == StoresInit /\ [][StoresNext]_vars

(***************************************************************************)
(* SpecVerify: a span is hashed and signed; verifySignature is then called *)
(* with any signature string and any public key, on the span as it is or   *)
(* with a field missing.                                                   *)
(***************************************************************************)
\* What the try block of verifySignature does: "throws" when a statement of
\* it throws (signature is no string, match gives null, span.this is
\* missing, importKey rejects), else what crypto.subtle.verify resolves to.
VerifyTry(span, signature, publicKey) ==
    IF signature.t # "string" THEN "throws"
    ELSE IF Len(ReplacePrefix(signature.s)) = 0 THEN "throws"
    ELSE IF Get(span, "this").t # "object" THEN "throws"
    ELSE IF ~ImportKeyJwk(publicKey).ok THEN "throws"
    ELSE IF VerifySignature(span, signature.s, publicKey) THEN "true"
    ELSE "false"

\* verifySignature: catch (error) { return false }
VerifyOutcome(span, signature, publicKey) ==
    IF VerifyTry(span, signature, publicKey) = "throws" THEN "false"
    ELSE VerifyTry(span, signature, publicKey)

\* The signature strings a caller may give for a stored signature s: s, no
\* string, the empty string, the prefix alone, s without its prefix, s with
\* the first byte written as one digit and a character that is no hex digit
\* ("g"), s with a first digit that is no hex digit, s cut by a byte or by
\* half a byte.
GivenSignatures(s) ==
    {Str(s), Undefined, Str(<<>>), Str(<<"ed25519:">>), Str(Tail(s)),
     Str(<<s[1], s[3], "g">> \o SubSeq(s, 4, Len(s))),
     Str(<<s[1], "g">> \o SubSeq(s, 3, Len(s))),
     Str(SubSeq(s, 1, Len(s) - 2)), Str(SubSeq(s, 1, Len(s) - 1))}

\* The public keys a caller may give: the JWK of a generated keypair, a JWK
\* of another curve or key type, no key.
GivenKeys ==
    {ExportKeyJwk(GenerateKeyPair(k).publicKey) : k \in KeyPairs}
    \cup {[kty |-> "OKP", crv |-> "X25519", x |-> 1],
          [kty |-> "RSA", crv |-> "", x |-> 1],
          [kty |-> "", crv |-> "", x |-> 0]}

VerifyInit ==
    /\ orig \in InitialDrafts
    /\ cur = orig
    /\ origHash = <<>>
    /\ curHash = <<>>
    /\ sig = <<>>
    /\ signKey = 0
    /\ verifyKey = 0
    /\ verifyResult = "none"
    /\ edits = 0
    /\ verifyInput = NoInput
    /\ StoresEmpty
    /\ VaultIdle
    /\ CallsIdle
    /\ IdsIdle
    /\ AppIdle

\* The span given to verifySignature lacks a field.
DropField ==
    /\ sig # <<>>
    /\ cur = orig
    /\ verifyInput = NoInput
    /\ \E k \in {"this", "id", "body"} : Edited(Delete(cur, k))

\* verifySignature(cur, signature, publicKey)
VerifyGiven ==
    /\ sig # <<>>
    /\ verifyResult = "none"
    /\ \E signature \in GivenSignatures(sig) : \E publicKey \in GivenKeys :
          /\ verifyInput' = [signature |-> signature, publicKey |-> publicKey]
          /\ verifyResult' = VerifyOutcome(cur, signature, publicKey)
    /\ verifyKey' = 0
    /\ UNCHANGED <<orig, cur, origHash, curHash, sig, signKey, edits, storeVars,
                   vaultVars, callVars, idVars, appVars>>

VerifyNext ==
    \/ HashDraft
    \/ SignDraft
    \/ DropField
    \/ VerifyGiven

SpecVerify == VerifyInit /\ [][VerifyNext]_vars

(***************************************************************************)
(* SpecVault: an API key is encrypted for a user id; the blob, as it is or *)
(* with bytes of it changed or cut off, is decrypted for a user id.        *)
(***************************************************************************)
\* API keys: the empty string, two keys as the providers issue them, strings
\* with other Unicode content.
Secrets ==
    {<<>>, <<"sk-ant-", "k1">>, <<"sk-", "k2">>, <<"sk-", "U+00E9">>,
     <<"k1", "U+FEFF">>, <<"U+FEFF", "sk-", "k2">>, <<"sk-", "U+D800">>}

Scopes == {<<"user-", "ana", "-", "x1">>, <<"user-", "bob", "-", "x1">>}

\* crypto.getRandomValues: the draws of the salt and of the nonce.
RandomSalts == Salts \cup {[i \in 1..SaltLength |-> i + 1]}
RandomIvs == Ivs \cup {[i \in 1..IvLength |-> 3]}

VaultInit ==
    /\ CryptoIdle
    /\ StoresEmpty
    /\ CallsIdle
    /\ IdsIdle
    /\ AppIdle
    /\ secret \in Secrets
    /\ scope \in Scopes
    /\ blob = <<>>
    /\ presented = <<>>
    /\ openScope = <<>>
    /\ decrypted = NotDecrypted

\* blob = await encryptApiKey(secret, scope)
VaultEncrypt ==
    /\ blob = <<>>
    /\ \E salt \in RandomSalts : \E iv \in RandomIvs :
          blob' = EncryptApiKey(secret, scope, salt, iv)
    /\ presented' = blob'
    /\ UNCHANGED <<secret, scope, openScope, decrypted, cryptoVars, storeVars, callVars, idVars, appVars>>

\* One byte of the stored blob is changed.
VaultAlterByte ==
    /\ blob # <<>>
    /\ presented = blob
    /\ decrypted = NotDecrypted
    /\ LET bytes == HexToBytes(blob).value
       IN \E i \in 1..Len(bytes) :
             presented' = BytesToHex([bytes EXCEPT ![i] = (@ + 1) % 256])
    /\ UNCHANGED <<secret, scope, blob, openScope, decrypted, cryptoVars, storeVars,
                   callVars, idVars, appVars>>

\* The stored blob is cut off: to nothing, after the salt, after the nonce,
\* or by its last byte or half of it.
VaultCutOff ==
    /\ blob # <<>>
    /\ presented = blob
    /\ decrypted = NotDecrypted
    /\ \E n \in {0, 2 * SaltEnd, 2 * IvEnd, Len(blob) - 2, Len(blob) - 1} :
          presented' = SubSeq(blob, 1, n)
    /\ UNCHANGED <<secret, scope, blob, openScope, decrypted, cryptoVars, storeVars,
                   callVars, idVars, appVars>>

\* await decryptApiKey(presented, userId)
VaultDecrypt ==
    /\ blob # <<>>
    /\ decrypted = NotDecrypted
    /\ \E userId \in Scopes :
          /\ openScope' = userId
          /\ decrypted' = [done |-> TRUE,
                           ok |-> DecryptApiKey(presented, userId).ok,
                           value |-> DecryptApiKey(presented, userId).value]
    /\ UNCHANGED <<secret, scope, blob, presented, cryptoVars, storeVars, callVars, idVars, appVars>>

VaultNext ==
    \/ VaultEncrypt
    \/ VaultAlterByte
    \/ VaultCutOff
    \/ VaultDecrypt

SpecVault == VaultInit /\ [][VaultNext]_vars

(***************************************************************************)
(* SpecConcurrent: two calls of appendToLedger on a new database, their    *)
(* steps interleaved.  JavaScript runs a call up to its next await in one  *)
(* piece, so a call has these steps: appendToLedger is called and getDB    *)
(* looks at dbInstance; openDB resolves and getDB assigns dbInstance;      *)
(* db.add creates its readwrite transaction on 'spans'; the transaction    *)
(* runs.  IndexedDB runs the readwrite transactions on one object store    *)
(* one after another, in the order of their creation, whichever connection *)
(* they were created on.                                                   *)
(***************************************************************************)
CallIds == {1, 2}

\* The spans the two calls append: two ids, two contents under each id.
ConcurrentSpans ==
    {Hashed(ContractDraft(id, "tA", Atom(d), "t1")) :
        id \in {"s1", "s2"}, d \in {"d1", "d2"}}

\* (db.add's transaction, were it to succeed whatever the store holds.)
AddOutcomeAlwaysOk(store, span) == "ok"

\* await db.add('spans', span): resolves, or rejects with ConstraintError.
AddOutcome(store, span) ==
    IF AddFails(store, span) THEN "ConstraintError" ELSE "ok"

\* How many calls have created their transaction.
TransactionsCreated ==
    Cardinality({j \in DOMAIN calls : calls[j].pc \in {"pending", "done"}})

\* appendToLedger(span) is called: getDB returns the cached connection, or
\* calls openDB and waits for it.
ConcurrentCall ==
    /\ Len(calls) < Cardinality(CallIds)
    /\ \E span \in ConcurrentSpans :
          calls' = Append(calls,
                          [pc |-> IF dbInstance # 0 THEN "ready" ELSE "opening",
                           span |-> span,
                           db |-> dbInstance,
                           order |-> 0,
                           outcome |-> "none"])
    /\ UNCHANGED <<cryptoVars, storeVars, vaultVars, idVars, appVars, dbInstance>>

\* openDB resolves for call i with a connection of its own: getDB assigns it
\* to dbInstance and returns dbInstance.
OpenDBResolves(i) ==
    /\ calls[i].pc = "opening"
    /\ dbInstance' = i
    /\ calls' = [calls EXCEPT ![i].pc = "ready", ![i].db = i]
    /\ UNCHANGED <<cryptoVars, storeVars, vaultVars, idVars, appVars>>

ConcurrentOpen == \E i \in DOMAIN calls : OpenDBResolves(i)

\* db.add('spans', span) of call i creates its transaction.
DbAdd(i) ==
    /\ calls[i].pc = "ready"
    /\ calls' = [calls EXCEPT ![i].pc = "pending",
                              ![i].order = TransactionsCreated + 1]
    /\ UNCHANGED <<cryptoVars, storeVars, vaultVars, idVars, appVars, dbInstance>>

ConcurrentAdd == \E i \in DOMAIN calls : DbAdd(i)

\* The transaction of call i runs, the earlier ones having run: the span is
\* added, or the request fails and the transaction is aborted.
TransactionRuns(i) ==
    /\ calls[i].pc = "pending"
    /\ \A j \in DOMAIN calls :
          calls[j].pc = "pending" => calls[j].order >= calls[i].order
    /\ spans' = AddToStore(spans, calls[i].span)
    /\ appendLog' = IF AddFails(spans, calls[i].span) THEN appendLog
                    ELSE Append(appendLog, SpanId(calls[i].span))
    /\ calls' = [calls EXCEPT ![i].pc = "done",
                              ![i].outcome = AddOutcome(spans, calls[i].span)]
    /\ UNCHANGED <<cryptoVars, vaultVars, idVars, appVars, dbInstance, contracts, users,
                   credentials, identity, session, lastOp, lastResult,
                   lastError, prevSpans>>

ConcurrentRun == \E i \in DOMAIN calls : TransactionRuns(i)

ConcurrentNext ==
    \/ ConcurrentCall
    \/ ConcurrentOpen
    \/ ConcurrentAdd
    \/ ConcurrentRun

ConcurrentInit ==
    /\ CryptoIdle
    /\ StoresEmpty
    /\ VaultIdle
    /\ CallsIdle
    /\ IdsIdle
    /\ AppIdle

SpecConcurrent == ConcurrentInit /\ [][ConcurrentNext]_vars

(***************************************************************************)
(* SpecIds: generateId.  Date.now() is below 2^48 and is held in two       *)
(* halves of 24 bits, hi * 2^24 + lo.  The clock moves to any other        *)
(* instant; generateId reads it and draws ten random bytes.                *)
(***************************************************************************)
\* Number.prototype.toString(16) of a whole number: no leading zero.
RECURSIVE NumberToString16(_)
NumberToString16(n) ==
    IF n < 16 THEN <<HexDigits[n + 1]>>
    ELSE Append(NumberToString16(n \div 16), HexDigits[(n % 16) + 1])

\* (padStart, were it to leave the string as it is.)
PadStartNot(string, length, fill) == string

\* string.padStart(length, fill) for a fill of one character: a string of
\* that length or longer is left as it is.
PadStart(string, length, fill) ==
    IF Len(string) >= length THEN string
    ELSE [i \in 1..(length - Len(string)) |-> fill] \o string

\* timestamp.toString(16): the digits of hi, then the six digits of lo.
TimestampToString16(timestamp) ==
    IF timestamp.hi = 0 THEN NumberToString16(timestamp.lo)
    ELSE NumberToString16(timestamp.hi)
             \o PadStart(NumberToString16(timestamp.lo), 6, "0")

\* string.slice(from, to), 0 <= from <= to
SliceFromTo(string, from, to) ==
    SubSeq(string, from + 1, IF to < Len(string) THEN to ELSE Len(string))

\* Array.from(randomBytes).map(b => b.toString(16).padStart(2, '0')).join('')
RECURSIVE RandomHex(_)
RandomHex(randomBytes) ==
    IF randomBytes = <<>> THEN <<>>
    ELSE PadStart(NumberToString16(Head(randomBytes)), 2, "0")
             \o RandomHex(Tail(randomBytes))

\* generateId(), Date.now() and the random bytes given
GenerateId(timestamp, randomBytes) ==
    LET timestampHex == PadStart(TimestampToString16(timestamp), 12, "0")
        randomHex == RandomHex(randomBytes)
    IN SliceFromTo(timestampHex, 0, 8) \o <<"-">>
           \o SliceFromTo(timestampHex, 8, 12) \o <<"-", "7">>
           \o SliceFromTo(randomHex, 0, 3) \o <<"-">>
           \o SliceFromTo(randomHex, 3, 7) \o <<"-">>
           \o SliceFromTo(randomHex, 7, 19)

\* The instants the clock shows: the first ones, the ones around a carry
\* into the next digit and into the upper half, one of the year 2026 and the
\* last one below 2^48.
Timestamps ==
    {[hi |-> h, lo |-> l] : h \in {0, 1, 106930, 16777215},
                            l \in {0, 15, 16, 16777215}}

\* crypto.getRandomValues(new Uint8Array(10))
RandomBytes ==
    {[i \in 1..10 |-> 0], [i \in 1..10 |-> 255],
     <<1, 35, 69, 103, 137, 171, 205, 239, 16, 9>>}

TimeLess(a, b) == a.hi < b.hi \/ (a.hi = b.hi /\ a.lo < b.lo)

IdsTick ==
    /\ \E t \in Timestamps \ {clock} : clock' = t
    /\ UNCHANGED <<cryptoVars, storeVars, vaultVars, callVars, appVars, idLog>>

\* A call of generateId; the log keeps the id built before it.
IdsGenerate ==
    /\ \E randomBytes \in RandomBytes :
          idLog' = (IF idLog = <<>> THEN <<>> ELSE <<idLog[Len(idLog)]>>)
                       \o <<[at |-> clock, id |-> GenerateId(clock, randomBytes)]>>
    /\ UNCHANGED <<cryptoVars, storeVars, vaultVars, callVars, appVars, clock>>

IdsNext ==
    \/ IdsTick
    \/ IdsGenerate

IdsInit ==
    /\ CryptoIdle
    /\ StoresEmpty
    /\ VaultIdle
    /\ CallsIdle
    /\ IdsIdle
    /\ AppIdle

SpecIds == IdsInit /\ [][IdsNext]_vars

(***************************************************************************)
(* SpecApp: the pages.  App asks for the session once, when it is loaded,  *)
(* and keeps the answer in isAuthenticated; its routes render a page or a  *)
(* Navigate element, which sets the location again.  A component's state   *)
(* is gone when the component is unmounted.                                *)
(***************************************************************************)
Paths == {"/", "/dashboard", "/create", "/settings"}

\* (The routes, were they to render their page whatever isAuthenticated is.)
RouteElementUnguarded(authenticated, location) ==
    IF location = "/dashboard" THEN [page |-> "Dashboard", to |-> ""]
    ELSE IF location = "/create" THEN [page |-> "CreateContract", to |-> ""]
    ELSE IF location = "/" THEN [page |-> "Onboarding", to |-> ""]
    ELSE [page |-> "Navigate", to |-> "/"]

\* The element of the route that matches the location.
RouteElement(authenticated, location) ==
    IF location = "/"
    THEN IF authenticated THEN [page |-> "Navigate", to |-> "/dashboard"]
         ELSE [page |-> "Onboarding", to |-> ""]
    ELSE IF location = "/dashboard"
    THEN IF authenticated THEN [page |-> "Dashboard", to |-> ""]
         ELSE [page |-> "Navigate", to |-> "/"]
    ELSE IF location = "/create"
    THEN IF authenticated THEN [page |-> "CreateContract", to |-> ""]
         ELSE [page |-> "Navigate", to |-> "/"]
    ELSE [page |-> "Navigate", to |-> "/"]

\* What App renders.
Rendered ==
    IF isAuthenticated = "null" THEN "Spinner"
    ELSE RouteElement(isAuthenticated = "true", path).page

\* Onboarding's state after the location was set: as it was if Onboarding
\* stays rendered, useState's initial values if it is rendered anew.
OnboardingReset ==
    /\ step' = "welcome"
    /\ typedName' = <<>>
    /\ typedKey' = <<>>
    /\ loading' = FALSE
    /\ error' = ""
    /\ submitted' = <<>>

\* The application is opened, or loaded again, at any address.
AppLoad ==
    /\ \E location \in Paths : path' = location
    /\ isAuthenticated' = "null"
    /\ arrivedBy' = "load"
    /\ timer' = "none"
    /\ OnboardingReset
    /\ typedDescription' = <<>>
    /\ generating' = FALSE
    /\ conversation' = <<>>
    /\ createError' = ""
    /\ pending' = <<>>
    /\ UNCHANGED <<cryptoVars, storeVars, vaultVars, callVars, idVars, registered, sent>>

\* checkAuth: setIsAuthenticated(!!session)
CheckAuth ==
    /\ isAuthenticated = "null"
    /\ isAuthenticated' = IF session # {} THEN "true" ELSE "false"
    /\ UNCHANGED <<cryptoVars, storeVars, vaultVars, callVars, idVars, path,
                   arrivedBy, timer, onboardingVars, registered, createVars>>

\* A Navigate element is rendered: it sets the location.
Redirect ==
    /\ Rendered = "Navigate"
    /\ path' = RouteElement(isAuthenticated = "true", path).to
    /\ UNCHANGED <<cryptoVars, storeVars, vaultVars, callVars, idVars,
                   isAuthenticated, arrivedBy, timer, onboardingVars, registered, createVars>>

(***************************************************************************)
(* The Onboarding page.                                                    *)
(***************************************************************************)
\* string.trim(): white space, the byte order mark included, is removed at
\* both ends.
WhiteSpace == {" ", "U+FEFF"}

RECURSIVE TrimStart(_)
TrimStart(string) ==
    IF string # <<>> /\ Head(string) \in WhiteSpace THEN TrimStart(Tail(string))
    ELSE string

\* (trim, were it to leave the string as it is.)
TrimNot(string) == string

Trim(string) == Reverse(TrimStart(Reverse(TrimStart(string))))

\* getCurrentUser(): the user of the session's user_id; no one when there is
\* no session or no user under that id.
GetCurrentUser ==
    {u \in users : \E s \in session : s.id = "current" /\ u.id = s.user_id}

\* getCredential(userId)
GetCredential(userId) == {c \in credentials : c.user_id = userId}

Names == {<<"Ana">>, <<" ">>}

ApiKeys ==
    {<<"sk-ant-", "k1">>, <<"zz", "U+D800">>, <<"U+FEFF", "sk-", "k1">>, <<" ">>}

ShortIds == {"x1", "x2"}

\* fetch takes header values of Latin-1 characters only and throws on others;
\* the key is a header value for Anthropic and OpenAI, the address for Ollama.
\* answers tells whether the provider answers the request with a completion.
TestApiKey(key, provider, answers) ==
    /\ answers
    /\ provider = "ollama" \/ \A i \in 1..Len(key) : key[i] \notin {"U+D800", "U+FEFF", "U+FFFD"}

\* The button 'Comecar'.
OnboardingBegin ==
    /\ Rendered = "Onboarding"
    /\ step = "welcome"
    /\ step' = "name"
    /\ UNCHANGED <<cryptoVars, storeVars, vaultVars, callVars, idVars,
                   isAuthenticated, path, arrivedBy, timer, typedName, typedKey,
                   loading, error, submitted, registered, createVars>>

\* The typedName field.
OnboardingSetName ==
    /\ Rendered = "Onboarding"
    /\ step = "name"
    /\ \E typed \in Names : typedName' = typed
    /\ UNCHANGED <<cryptoVars, storeVars, vaultVars, callVars, idVars,
                   isAuthenticated, path, arrivedBy, timer, step, typedKey,
                   loading, error, submitted, registered, createVars>>

\* handleNameSubmit
HandleNameSubmit ==
    /\ Rendered = "Onboarding"
    /\ step = "name"
    /\ step' = IF Trim(typedName) # <<>> THEN "apikey" ELSE step
    /\ UNCHANGED <<cryptoVars, storeVars, vaultVars, callVars, idVars,
                   isAuthenticated, path, arrivedBy, timer, typedName, typedKey,
                   loading, error, submitted, registered, createVars>>

\* The key field.
OnboardingSetApiKey ==
    /\ Rendered = "Onboarding"
    /\ step = "apikey"
    /\ \E typed \in ApiKeys : typedKey' = typed
    /\ UNCHANGED <<cryptoVars, storeVars, vaultVars, callVars, idVars,
                   isAuthenticated, path, arrivedBy, timer, step, typedName,
                   loading, error, submitted, registered, createVars>>

\* handleApiKeySubmit up to its first await.  The button is disabled while
\* loading.
HandleApiKeySubmitStarts ==
    /\ Rendered = "Onboarding"
    /\ step = "apikey"
    /\ ~loading
    /\ Trim(typedKey) # <<>>
    /\ Len(registered) < MaxRegistrations
    /\ loading' = TRUE
    /\ error' = ""
    /\ submitted' = <<[name |-> typedName, apiKey |-> typedKey]>>
    /\ UNCHANGED <<cryptoVars, storeVars, vaultVars, callVars, idVars,
                   isAuthenticated, path, arrivedBy, timer, step, typedName, typedKey,
                   registered, createVars>>

\* What the n-th call of registerUser generates for itself, a key pair and
\* an id that no call before it had, and the time it reads.
FreshDraws(n) ==
    [pair |-> ((n - 1) % Cardinality(KeyPairs)) + 1,
     id |-> <<"s1", "s2", "s3">>[n],
     now |-> <<"t1", "t2", "t3">>[n]]

\* Whether registerUser with these draws resolves.
RegisterUserSucceeds(given, userId, fresh, now, keygen) ==
    /\ keygen
    /\ ~AddFails(spans, RegistrationSpan(fresh.id, userId, given, now,
                                         GenerateKeyPair(fresh.pair)))

\* handleApiKeySubmit from testApiKey's answer to its end.  answers, keygen
\* and saved tell whether the provider answers, generateKeyPair resolves and
\* saveSession resolves; shortId and again are the two draws of Math.random.
\* A call of registerUser is entered in registered.
HandleApiKeySubmitEnds ==
    /\ submitted # <<>>
    /\ \E answers \in BOOLEAN : \E keygen \in BOOLEAN : \E saved \in BOOLEAN :
       \E shortId \in {"x1"} : \E again \in ShortIds :
       \E salt \in Salts : \E iv \in Ivs :
          LET given == submitted[1]
              fresh == FreshDraws(Len(registered) + 1)
              userId == UserIdOf(given.name, shortId)
              succeeds == RegisterUserSucceeds(given.name, userId, fresh, fresh.now, keygen)
          IN IF ~TestApiKey(given.apiKey, DetectProvider(given.apiKey), answers)
             THEN /\ error' = "Chave API invalida"
                  /\ UNCHANGED <<storeVars, step, timer, registered>>
             ELSE /\ RegisterUser(given.name, given.apiKey, shortId, salt, iv,
                                  fresh.pair, fresh.id, fresh.now, keygen)
                  /\ registered' =
                        Append(registered,
                               [apiKey |-> given.apiKey, userId |-> userId,
                                pair |-> fresh.pair, spanId |-> fresh.id,
                                ok |-> succeeds])
                  /\ IF succeeds /\ saved
                     THEN /\ CreateSession(UserIdOf(given.name, again), fresh.now)
                          /\ step' = "complete"
                          /\ timer' = "pending"
                          /\ error' = ""
                     ELSE /\ error' = "Erro ao configurar conta"
                          /\ UNCHANGED <<session, step, timer>>
                  /\ UNCHANGED contracts
    /\ loading' = FALSE
    /\ submitted' = <<>>
    /\ UNCHANGED <<cryptoVars, vaultVars, callVars, idVars, isAuthenticated,
                   path, arrivedBy, typedName, typedKey, createVars>>

\* The timer set at step 'complete': navigate('/dashboard').
OnboardingTimer ==
    /\ timer = "pending"
    /\ timer' = "none"
    /\ path' = "/dashboard"
    /\ arrivedBy' = "complete"
    /\ OnboardingReset
    /\ UNCHANGED <<cryptoVars, storeVars, vaultVars, callVars, idVars,
                   isAuthenticated, registered, createVars>>

\* navigate(to) of a page: the Dashboard's buttons lead to /create and to
\* addresses without a route; CreateContract leads back to the Dashboard
\* and, from handleSubmit without a user, to '/'.
PageNavigates ==
    /\ \E to \in Paths :
          /\ \/ Rendered = "Dashboard" /\ to \in {"/create", "/settings"}
             \/ Rendered = "CreateContract" /\ to \in {"/dashboard", "/"}
          /\ path' = to
    /\ arrivedBy' = "page"
    /\ UNCHANGED <<cryptoVars, storeVars, vaultVars, callVars, idVars,
                   isAuthenticated, timer, onboardingVars, registered, createVars>>

AppNext ==
    \/ AppLoad
    \/ CheckAuth
    \/ Redirect
    \/ OnboardingBegin
    \/ OnboardingSetName
    \/ HandleNameSubmit
    \/ OnboardingSetApiKey
    \/ HandleApiKeySubmitStarts
    \/ HandleApiKeySubmitEnds
    \/ OnboardingTimer
    \/ PageNavigates

AppInit ==
    /\ CryptoIdle
    /\ StoresEmpty
    /\ VaultIdle
    /\ CallsIdle
    /\ IdsIdle
    /\ AppIdle

SpecApp == AppInit /\ [][AppNext]_vars

(***************************************************************************)
(* SpecCreate: the CreateContract page, in an installation whose           *)
(* onboarding is completed and whose application is loaded again.  A call  *)
(* of handleSubmit runs in three steps, up to its first await, up to       *)
(* callLLM, and from callLLM's outcome to its end; it works on the         *)
(* description and the conversation of the render that made it.  State     *)
(* set by a call whose page is no longer mounted is lost.                  *)
(***************************************************************************)
\* What is typed: a text, or a blank.
Descriptions == {<<"d1">>, <<" ">>}

\* generateId's draws in handleSaveContract: the id of a span of the ledger
\* or a new one.
TraceIds == {"tA", "tB"}
CreateIds == {"s1", "s2"}

Message(role, content) == [role |-> role, content |-> content]

\* callLLM: messages = [...conversationHistory, {role: 'user', content}]
LLMMessages(userMessage, conversationHistory) ==
    Append(conversationHistory, Message("user", userMessage))

\* The page is left: its state is gone, the calls under way go on.
CreateUnmount ==
    /\ typedDescription' = <<>>
    /\ generating' = FALSE
    /\ conversation' = <<>>
    /\ createError' = ""

Unmounted(running) ==
    [i \in DOMAIN running |-> [running[i] EXCEPT !.mounted = FALSE]]

Without(running, i) ==
    SubSeq(running, 1, i - 1) \o SubSeq(running, i + 1, Len(running))

\* The Dashboard's buttons to /create.
CreateOpen ==
    /\ Rendered = "Dashboard"
    /\ path' = "/create"
    /\ arrivedBy' = "page"
    /\ UNCHANGED <<cryptoVars, storeVars, vaultVars, callVars, idVars,
                   isAuthenticated, timer, onboardingVars, registered, createVars>>

\* The text area and the template buttons.
CreateSetDescription ==
    /\ Rendered = "CreateContract"
    /\ \E typed \in Descriptions : typedDescription' = typed
    /\ UNCHANGED <<cryptoVars, storeVars, vaultVars, callVars, idVars,
                   isAuthenticated, path, arrivedBy, timer, onboardingVars,
                   registered, generating, conversation, createError, pending, sent>>

\* handleSubmit up to its first await.  The button is disabled while
\* generating; the Enter key of the text area calls handleSubmit whatever
\* generating is.
HandleSubmitStarts ==
    /\ Rendered = "CreateContract"
    /\ Trim(typedDescription) # <<>>
    /\ Len(pending) < MaxPending
    /\ Len(conversation) + 2 <= MaxMessages
    /\ generating' = TRUE
    /\ createError' = ""
    /\ pending' = Append(pending, [pc |-> "asks",
                                   description |-> typedDescription,
                                   conversation |-> conversation,
                                   mounted |-> TRUE])
    /\ UNCHANGED <<cryptoVars, storeVars, vaultVars, callVars, idVars,
                   isAuthenticated, path, arrivedBy, timer, onboardingVars,
                   registered, typedDescription, conversation, sent>>

\* handleSubmit from getCurrentUser to the call of callLLM.
HandleSubmitAsks ==
    \E i \in DOMAIN pending :
       LET call == pending[i]
           user == GetCurrentUser
           credential == IF user = {} THEN {}
                         ELSE GetCredential((CHOOSE u \in user : TRUE).id)
       IN /\ call.pc = "asks"
          /\ IF user = {} \/ credential = {}
             THEN \* setError, navigate('/'), return; finally
                  /\ path' = "/"
                  /\ arrivedBy' = "page"
                  /\ CreateUnmount
                  /\ pending' = Unmounted(Without(pending, i))
                  /\ UNCHANGED sent
             ELSE LET u == CHOOSE one \in user : TRUE
                      c == CHOOSE one \in credential : TRUE
                      apiKey == DecryptApiKey(c.encrypted_key, u.id)
                      newConversation ==
                          Append(call.conversation, Message("user", call.description))
                  IN IF ~apiKey.ok
                     THEN \* catch, finally
                          /\ createError' = IF call.mounted THEN "Erro ao processar"
                                            ELSE createError
                          /\ generating' = (generating /\ ~call.mounted)
                          /\ pending' = Without(pending, i)
                          /\ UNCHANGED <<path, arrivedBy, typedDescription,
                                         conversation, sent>>
                     ELSE /\ conversation' = IF call.mounted THEN newConversation
                                             ELSE conversation
                          /\ sent' = <<[text |-> call.description,
                                        provider |-> c.provider,
                                        apiKey |-> apiKey.value,
                                        messages |-> LLMMessages(call.description,
                                                                 call.conversation)]>>
                          /\ pending' = [pending EXCEPT ![i].pc = "answers"]
                          /\ UNCHANGED <<path, arrivedBy, typedDescription,
                                         generating, createError>>
          /\ UNCHANGED <<cryptoVars, storeVars, vaultVars, callVars, idVars,
                         isAuthenticated, timer, onboardingVars, registered>>

\* handleSubmit from callLLM's outcome to its end.  answers tells whether
\* callLLM resolves.
HandleSubmitAnswers ==
    \E i \in DOMAIN pending : \E answers \in BOOLEAN :
       LET call == pending[i]
           newConversation ==
               Append(call.conversation, Message("user", call.description))
       IN /\ call.pc = "answers"
          /\ pending' = Without(pending, i)
          /\ IF ~call.mounted
             THEN UNCHANGED <<typedDescription, generating, conversation, createError>>
             ELSE /\ generating' = FALSE
                  /\ IF answers
                     THEN /\ conversation' =
                                Append(newConversation, Message("assistant", <<"r1">>))
                          /\ typedDescription' = <<>>
                          /\ UNCHANGED createError
                     ELSE /\ createError' = "Erro ao processar"
                          /\ UNCHANGED <<typedDescription, conversation>>
          /\ UNCHANGED <<cryptoVars, storeVars, vaultVars, callVars, idVars,
                         isAuthenticated, path, arrivedBy, timer, onboardingVars,
                         registered, sent>>

\* The button 'Refazer'.
CreateRefazer ==
    /\ Rendered = "CreateContract"
    /\ Len(conversation) > 0
    /\ conversation' = <<>>
    /\ UNCHANGED <<cryptoVars, storeVars, vaultVars, callVars, idVars,
                   isAuthenticated, path, arrivedBy, timer, onboardingVars,
                   registered, typedDescription, generating, createError,
                   pending, sent>>

\* The button 'Salvar Contrato': handleSaveContract, then navigate('/dashboard')
\* or, after a throw, setError.
CreateSaveContract ==
    /\ Rendered = "CreateContract"
    /\ Len(conversation) > 0
    /\ \E traceId \in TraceIds : \E id \in CreateIds :
          LET firstMessage == Str(conversation[1].content)
          IN /\ HandleSaveContract(traceId, id, firstMessage, "t3")
             /\ IF AddFails(spans, ContractSpan(id, traceId, firstMessage, "t3"))
                THEN /\ createError' = "Erro ao salvar contrato"
                     /\ UNCHANGED <<path, arrivedBy, typedDescription, generating,
                                    conversation, pending>>
                ELSE /\ path' = "/dashboard"
                     /\ arrivedBy' = "page"
                     /\ CreateUnmount
                     /\ pending' = Unmounted(pending)
    /\ UNCHANGED <<cryptoVars, vaultVars, callVars, idVars, isAuthenticated,
                   timer, onboardingVars, registered, users, credentials,
                   identity, session, sent>>

\* The button 'Voltar'.
CreateBack ==
    /\ Rendered = "CreateContract"
    /\ path' = "/dashboard"
    /\ arrivedBy' = "page"
    /\ CreateUnmount
    /\ pending' = Unmounted(pending)
    /\ UNCHANGED <<cryptoVars, storeVars, vaultVars, callVars, idVars,
                   isAuthenticated, timer, onboardingVars, registered, sent>>

CreateNext ==
    \/ AppLoad
    \/ CheckAuth
    \/ Redirect
    \/ CreateOpen
    \/ CreateSetDescription
    \/ HandleSubmitStarts
    \/ HandleSubmitAsks
    \/ HandleSubmitAnswers
    \/ CreateRefazer
    \/ CreateSaveContract
    \/ CreateBack

\* The stores as a completed onboarding of 'Ana' leaves them, the session
\* under the id of handleApiKeySubmit's own draw; the application is being
\* loaded again.
CreateInit ==
    /\ CryptoIdle
    /\ VaultIdle
    /\ CallsIdle
    /\ IdsIdle
    /\ \E again \in ShortIds : \E salt \in Salts : \E iv \in Ivs :
          LET given == [name |-> <<"Ana">>, apiKey |-> <<"sk-ant-", "k1">>]
              fresh == FreshDraws(1)
              userId == UserIdOf(given.name, "x1")
              keyPair == GenerateKeyPair(fresh.pair)
              span == RegistrationSpan(fresh.id, userId, given.name, fresh.now, keyPair)
          IN /\ users = {[id |-> userId, name |-> given.name, created_at |-> fresh.now]}
             /\ credentials =
                   {[user_id |-> userId,
                     encrypted_key |-> EncryptApiKey(given.apiKey, userId, salt, iv),
                     provider |-> DetectProvider(given.apiKey),
                     created_at |-> fresh.now]}
             /\ identity = {[id |-> "self", user_id |-> userId,
                             public_key |-> ExportKeyJwk(keyPair.publicKey),
                             private_key_handle |-> keyPair.privateKey,
                             created_at |-> fresh.now]}
             /\ spans = {span}
             /\ appendLog = <<SpanId(span)>>
             /\ lastOp = Op("registerUser", span, NoFilter, "")
             /\ session = {[id |-> "current", user_id |-> UserIdOf(given.name, again),
                            started_at |-> fresh.now, last_activity |-> fresh.now]}
             /\ registered = <<[apiKey |-> given.apiKey, userId |-> userId,
                                pair |-> fresh.pair, spanId |-> fresh.id,
                                ok |-> TRUE]>>
    /\ contracts = {}
    /\ lastResult = NoResult
    /\ lastError = "none"
    /\ prevSpans = {}
    /\ isAuthenticated = "null"
    /\ path = "/dashboard"
    /\ arrivedBy = "load"
    /\ timer = "none"
    /\ OnboardingMounted
    /\ CreateIdle

SpecCreate == CreateInit /\ [][CreateNext]_vars

(***************************************************************************)
(* Comparing two spans by the values of their fields: the order of the     *)
(* keys and properties set to undefined do not count.                      *)
(***************************************************************************)
RECURSIVE Norm(_)
Norm(v) ==
    IF v.t # "object" THEN v
    ELSE LET K == SelectSeq(SortKeys(Keys(v)), LAMBDA k : Get(v, k).t # "undefined")
         IN Obj([i \in 1..Len(K) |-> <<K[i], Norm(Get(v, K[i]))>>])

SameValue(a, b) == Norm(a) = Norm(b)

HashedFields ==
    {"id", "trace_id", "parent_id", "type", "entity", "body", "started_at",
     "completed_at"}

\* cur is orig with only the fields in K changed, at least one of them in value.
ChangedOnly(K) ==
    /\ Keys(cur) = Keys(orig)
    /\ \A k \in Range(Keys(orig)) \ K : Get(cur, k) = Get(orig, k)
    /\ \E k \in K : ~SameValue(Get(cur, k), Get(orig, k))

VerifiedBySigner == verifyResult # "none" /\ verifyKey = signKey

(***************************************************************************)
(* C1 (as claimed): when only the body of a signed span was changed,       *)
(* verifySignature with the signer's public key returns false.             *)
(***************************************************************************)
C1_BodyTamperDetected ==
    (VerifiedBySigner /\ ChangedOnly({"body"})) => verifyResult = "false"

(***************************************************************************)
(* C2 (as claimed): when only this.hash of a signed span was changed,      *)
(* verifySignature with the signer's public key returns false.             *)
(***************************************************************************)
C2_HashTamperDetected ==
    (VerifiedBySigner /\ ChangedOnly({"this"})) => verifyResult = "false"

(***************************************************************************)
(* C3 (as claimed): two drafts that differ in the value of a hashed field  *)
(* get different digests from calculateSpanHash.                           *)
(***************************************************************************)
C3_HashSensitive ==
    (/\ curHash # <<>>
     /\ \E k \in HashedFields : ~SameValue(Get(cur, k), Get(orig, k)))
    => curHash # origHash

(***************************************************************************)
(* C4: two drafts whose hashed fields have equal values get the same       *)
(* digest from calculateSpanHash, whatever the order of their keys, at the *)
(* top level and inside body, and whether an optional field is absent or   *)
(* set to undefined.                                                       *)
(***************************************************************************)
C4_HashDeterministic ==
    (/\ curHash # <<>>
     /\ \A k \in HashedFields : SameValue(Get(cur, k), Get(orig, k)))
    => curHash = origHash

\* Both drafts were hashed, the second has its keys and the keys of its body
\* in the opposite order.
C4_Witness ==
    /\ curHash # <<>>
    /\ curHash = origHash
    /\ Keys(cur) = Reverse(Keys(orig))
    /\ Keys(Get(cur, "body")) = Reverse(Keys(Get(orig, "body")))

(***************************************************************************)
(* C5: verifySignature of an unchanged span and its signSpan signature is  *)
(* true with the public key of the signing keypair and false with the      *)
(* public key of another keypair.                                          *)
(***************************************************************************)
C5_SignVerifyRoundTrip ==
    (verifyResult # "none" /\ cur = orig)
    => (verifyResult = "true" <=> verifyKey = signKey)

C5_Witness ==
    /\ cur = orig
    /\ verifyKey = signKey
    /\ verifyResult = "true"

(***************************************************************************)
(* C6: the ledger is append-only.  No step of the stores' operations, of   *)
(* registerUser or of handleSaveContract removes or changes a stored span: *)
(* every span of the spans store is in it, with the same content, after    *)
(* the step.                                                               *)
(***************************************************************************)
C6_LedgerAppendOnly == [][spans \subseteq spans']_vars

\* Both ids are taken, every other store was written, and the last operation
\* was a handleSaveContract whose span came with an id of the ledger.
C6_Witness ==
    /\ Cardinality(spans) = 2
    /\ lastOp.op = "handleSaveContract"
    /\ lastError = "ConstraintError"
    /\ lastOp.span \notin spans
    /\ contracts # {} /\ users # {} /\ credentials # {}
    /\ identity # {} /\ session # {}

(***************************************************************************)
(* C7: appendToLedger of a span whose id is in the ledger fails and leaves *)
(* the ledger as it was: the same spans, the first one still under the id. *)
(***************************************************************************)
DuplicateAppend ==
    /\ lastOp.op = "appendToLedger"
    /\ \E r \in prevSpans : SpanId(r) = SpanId(lastOp.span)

C7_DuplicateAppendRejected ==
    DuplicateAppend => (lastError # "none" /\ spans = prevSpans)

\* A span was appended under the id of a stored span of other content.
C7_Witness ==
    /\ DuplicateAppend
    /\ lastOp.span \notin prevSpans
    /\ Cardinality(spans) >= 2

(***************************************************************************)
(* C8 (as claimed): queryLedger({trace_id: A, from, to}) without a limit   *)
(* returns exactly the stored spans of trace A whose started_at is within  *)
(* the bounds given, each once.                                            *)
(***************************************************************************)
Given(x) == x.t # "undefined"

TraceQuery ==
    /\ lastOp.op = "queryLedger"
    /\ Given(lastOp.filter.trace_id)
    /\ ~Given(lastOp.filter.type)
    /\ ~Given(lastOp.filter.entity)

MatchesTraceAndBounds(s, filter) ==
    /\ Get(s, "trace_id") = filter.trace_id
    /\ Given(filter.from) => ~StrLess(Get(s, "started_at").s, filter.from.s)
    /\ Given(filter.to) => ~StrLess(filter.to.s, Get(s, "started_at").s)

C8_QueryExact ==
    (TraceQuery /\ ~lastOp.filter.limit.given)
    => /\ Range(lastResult.spans) = {s \in spans : MatchesTraceAndBounds(s, lastOp.filter)}
       /\ Len(lastResult.spans) = Cardinality(Range(lastResult.spans))

\* What holds of the code: the same, for a trace id and bounds that are not
\* the empty string.
QueryExactForNonEmpty ==
    (/\ TraceQuery
     /\ ~lastOp.filter.limit.given
     /\ Truthy(lastOp.filter.trace_id)
     /\ Given(lastOp.filter.from) => Truthy(lastOp.filter.from)
     /\ Given(lastOp.filter.to) => Truthy(lastOp.filter.to))
    => /\ Range(lastResult.spans) = {s \in spans : MatchesTraceAndBounds(s, lastOp.filter)}
       /\ Len(lastResult.spans) = Cardinality(Range(lastResult.spans))

(***************************************************************************)
(* C9 (as claimed): the spans queryLedger returns, by trace or without a   *)
(* primary filter, are in the order in which they were appended.           *)
(***************************************************************************)
PlaceInLog(id) == CHOOSE i \in 1..Len(appendLog) : appendLog[i] = id

QueryByTraceOrAll ==
    /\ lastOp.op = "queryLedger"
    /\ ~Given(lastOp.filter.type)
    /\ ~Given(lastOp.filter.entity)

C9_QueryInInsertionOrder ==
    QueryByTraceOrAll
    => \A i, j \in 1..Len(lastResult.spans) :
          i < j => PlaceInLog(SpanId(lastResult.spans[i]))
                   < PlaceInLog(SpanId(lastResult.spans[j]))

(***************************************************************************)
(* C9 (amended): the spans queryLedger returns are in ascending order of   *)
(* their ids, the order of the store's primary key.                        *)
(***************************************************************************)
C9_QueryInKeyOrder ==
    QueryByTraceOrAll
    => \A i, j \in 1..Len(lastResult.spans) :
          i < j => StrLess(SpanId(lastResult.spans[i]), SpanId(lastResult.spans[j]))

\* A query returned two spans that were appended in the other order.
C9_Witness ==
    /\ QueryByTraceOrAll
    /\ Len(lastResult.spans) >= 2
    /\ PlaceInLog(SpanId(lastResult.spans[1])) > PlaceInLog(SpanId(lastResult.spans[2]))

(***************************************************************************)
(* C10 (as claimed): for every limit L given, 0 included, queryLedger      *)
(* returns the first L spans of the scanned and time-filtered sequence,    *)
(* so never more than L spans.                                             *)
(***************************************************************************)
WithoutLimit(filter) == [filter EXCEPT !.limit = NoLimit]

C10_LimitApplied ==
    (lastOp.op = "queryLedger" /\ lastOp.filter.limit.given)
    => /\ Len(lastResult.spans) <= lastOp.filter.limit.n
       /\ lastResult.spans =
             Slice(QueryLedgerResult(spans, WithoutLimit(lastOp.filter)),
                   lastOp.filter.limit.n)

\* What holds of the code: the same, for every limit L >= 1.
LimitAppliedWhenPositive ==
    (lastOp.op = "queryLedger" /\ lastOp.filter.limit.given
        /\ lastOp.filter.limit.n >= 1)
    => /\ Len(lastResult.spans) <= lastOp.filter.limit.n
       /\ lastResult.spans =
             Slice(QueryLedgerResult(spans, WithoutLimit(lastOp.filter)),
                   lastOp.filter.limit.n)

(***************************************************************************)
(* C11 (as claimed): of trace_id, type and entity, queryLedger scans the   *)
(* first one the filter gives and ignores the ones after it: the result is *)
(* the result for the filter without the ignored fields.                   *)
(***************************************************************************)
WithoutIgnored(filter) ==
    IF Given(filter.trace_id)
    THEN [filter EXCEPT !.type = Undefined, !.entity = Undefined]
    ELSE IF Given(filter.type) THEN [filter EXCEPT !.entity = Undefined]
    ELSE filter

SeveralGiven(filter) ==
    Cardinality({k \in {"trace_id", "type", "entity"} : Given(filter[k])}) >= 2

C11_QueryPrecedence ==
    (lastOp.op = "queryLedger" /\ SeveralGiven(lastOp.filter))
    => lastResult.spans = QueryLedgerResult(spans, WithoutIgnored(lastOp.filter))

\* What holds of the code: the same, when none of the fields given is the
\* empty string.
QueryPrecedenceForNonEmpty ==
    (/\ lastOp.op = "queryLedger"
     /\ SeveralGiven(lastOp.filter)
     /\ \A k \in {"trace_id", "type", "entity"} :
           Given(lastOp.filter[k]) => Truthy(lastOp.filter[k]))
    => lastResult.spans = QueryLedgerResult(spans, WithoutIgnored(lastOp.filter))

(***************************************************************************)
(* C12 (as claimed): decryptApiKey of the blob encryptApiKey returned,     *)
(* with the same user id, returns the secret that was encrypted, for every *)
(* secret string, salt and nonce.                                          *)
(***************************************************************************)
DecryptedAsStored ==
    /\ decrypted.done
    /\ presented = blob
    /\ openScope = scope

C12_EncryptDecryptRoundTrip ==
    DecryptedAsStored => (decrypted.ok /\ decrypted.value = secret)

\* What holds of the code: the same, for a secret that does not start with
\* a byte order mark and holds no surrogate without its partner.
RoundTripOfPlainText ==
    (/\ DecryptedAsStored
     /\ ~(Len(secret) > 0 /\ secret[1] = "U+FEFF")
     /\ \A i \in 1..Len(secret) : secret[i] # "U+D800")
    => (decrypted.ok /\ decrypted.value = secret)

\* The salt, the nonce and the ciphertext are read where they were put.
LayoutAgrees ==
    blob # <<>> =>
        LET data == HexToBytes(blob).value
        IN \E salt \in RandomSalts : \E iv \in RandomIvs :
              /\ ByteSlice(data, 0, SaltEnd) = salt
              /\ ByteSlice(data, SaltEnd, IvEnd) = iv
              /\ ByteSlice(data, IvEnd, Len(data))
                    = AesGcmEncrypt(DeriveKey(TextEncode(scope), salt), iv,
                                    TextEncode(secret))

FirstNewline(text) ==
    CHOOSE i \in 1..Len(text) :
        text[i] = "\n" /\ \A j \in 1..(i - 1) : text[j] # "\n"

\* The lines that a newline ends, in order.
RECURSIVE LinesOf(_)
LinesOf(text) ==
    IF \A i \in 1..Len(text) : text[i] # "\n" THEN <<>>
    ELSE <<SubSeq(text, 1, FirstNewline(text) - 1)>>
         \o LinesOf(SubSeq(text, FirstNewline(text) + 1, Len(text)))

\* What follows the last newline.
RECURSIVE Unended(_)
Unended(text) ==
    IF \A i \in 1..Len(text) : text[i] # "\n" THEN text
    ELSE Unended(SubSeq(text, FirstNewline(text) + 1, Len(text)))

\* The string from position i up to the closing quote.
RECURSIVE StringAt(_, _)
StringAt(line, i) ==
    IF i > Len(line) \/ line[i] = "\"" THEN <<>>
    ELSE <<line[i]>> \o StringAt(line, i + 1)

\* The value of the property "id" of the object a line holds; Undefined when
\* the line is no object or the object has no string under "id".
RECURSIVE IdFrom(_, _, _)
IdFrom(line, i, depth) ==
    IF i > Len(line) THEN Undefined
    ELSE IF line[i] = "{" THEN IdFrom(line, i + 1, depth + 1)
    ELSE IF line[i] = "}" THEN IdFrom(line, i + 1, depth - 1)
    ELSE IF /\ depth = 1
            /\ i + 4 <= Len(line)
            /\ SubSeq(line, i, i + 4) = <<"\"", "id", "\"", ":", "\"">>
    THEN Str(StringAt(line, i + 5))
    ELSE IdFrom(line, i + 1, depth)

ParsedId(line) ==
    IF Len(line) >= 2 /\ Head(line) = "{" /\ line[Len(line)] = "}"
    THEN IdFrom(line, 1, 0)
    ELSE Undefined

(***************************************************************************)
(* C14 (as claimed): for a ledger of n spans, n >= 0, exportLedger         *)
(* ('ndjson') gives exactly n lines, each ended by a newline, each a JSON  *)
(* object with the id of a stored span, every stored span once.            *)
(***************************************************************************)
NdjsonExported == lastOp.op = "exportLedger" /\ lastOp.format = "ndjson"

NdjsonLines == LinesOf(lastResult.blob.text)

OneLinePerSpan ==
    /\ Unended(lastResult.blob.text) = <<>>
    /\ Len(NdjsonLines) = Cardinality(spans)
    /\ \A i \in 1..Len(NdjsonLines) :
          \E s \in spans : ParsedId(NdjsonLines[i]) = Get(s, "id")
    /\ \A s \in spans :
          Cardinality({i \in 1..Len(NdjsonLines) :
                          ParsedId(NdjsonLines[i]) = Get(s, "id")}) = 1

C14_NdjsonExport == NdjsonExported => OneLinePerSpan

\* What holds of the code: the same, for a ledger that holds a span.
NdjsonOfNonEmptyLedger == (NdjsonExported /\ spans # {}) => OneLinePerSpan

(***************************************************************************)
(* C15 (as claimed): exportLedger('csv') gives the header row and then one *)
(* row per stored span, whose cells are the span's id, trace_id, type,     *)
(* entity, started_at, this.hash and confirmed_by.signature (empty when    *)
(* the span has no confirmed_by), in that order.                           *)
(***************************************************************************)
\* The parts of a text between the separators.
RECURSIVE SplitAt(_, _)
SplitAt(text, separator) ==
    IF \A i \in 1..Len(text) : text[i] # separator THEN <<text>>
    ELSE LET at == CHOOSE i \in 1..Len(text) :
                      text[i] = separator /\ \A j \in 1..(i - 1) : text[j] # separator
         IN <<SubSeq(text, 1, at - 1)>>
            \o SplitAt(SubSeq(text, at + 1, Len(text)), separator)

CsvExported == lastOp.op = "exportLedger" /\ lastOp.format = "csv"

CsvRows == SplitAt(lastResult.blob.text, "\n")

CellsOfSpan(s) ==
    <<Get(s, "id").s, Get(s, "trace_id").s, Get(s, "type").s, Get(s, "entity").s,
      Get(s, "started_at").s, Get(Get(s, "this"), "hash").s,
      IF HasKey(s, "confirmed_by")
      THEN Get(Get(s, "confirmed_by"), "signature").s ELSE <<>> >>

HeaderAndOneRowPerSpan ==
    /\ Len(CsvRows) = Cardinality(spans) + 1
    /\ SplitAt(CsvRows[1], ",") = [j \in 1..Len(CsvHeaders) |-> <<CsvHeaders[j]>>]
    /\ \A s \in spans :
          Cardinality({i \in 2..Len(CsvRows) :
                          SplitAt(CsvRows[i], ",") = CellsOfSpan(s)}) = 1

NoSeparatorIn(s) ==
    \A c \in 1..Len(CellsOfSpan(s)) :
        \A i \in 1..Len(CellsOfSpan(s)[c]) : CellsOfSpan(s)[c][i] \notin {",", "\n"}

CsvOfPlainFields ==
    (CsvExported /\ \A s \in spans : NoSeparatorIn(s)) => HeaderAndOneRowPerSpan

(***************************************************************************)
(* C16: exportLedger with a format other than 'ndjson', 'json' and 'csv'   *)
(* fails with an error, returns no blob and leaves every store as it was.  *)
(***************************************************************************)
OtherFormatExported ==
    lastOp.op = "exportLedger" /\ lastOp.format \notin {"ndjson", "json", "csv"}

C16_UnsupportedFormatFails ==
    [][OtherFormatExported' =>
          /\ lastError' # "none"
          /\ lastResult'.blob = NoBlob
          /\ UNCHANGED <<spans, contracts, users, credentials, identity, session>>]_vars

\* exportLedger('xml') ran on stores that hold records.
C16_Witness ==
    /\ OtherFormatExported
    /\ lastError = "Error"
    /\ spans # {} /\ contracts # {} /\ users # {}
    /\ credentials # {} /\ identity # {} /\ session # {}

(***************************************************************************)
(* C17 (as claimed): verifySignature resolves to a boolean for every       *)
(* input, and to false whenever the signature is malformed or does not     *)
(* match.                                                                  *)
(***************************************************************************)
VerifyCalled == verifyInput # NoInput

\* 'ed25519:' followed by an even, positive number of hex digits.
WellFormed(signature) ==
    /\ signature.t = "string"
    /\ Len(signature.s) >= 3
    /\ Len(signature.s) % 2 = 1
    /\ signature.s[1] = "ed25519:"
    /\ \A i \in 2..Len(signature.s) : HexValue(signature.s[i]) >= 0

SignatureMatches ==
    /\ verifyInput.signature = Str(sig)
    /\ verifyInput.publicKey = ExportKeyJwk(GenerateKeyPair(signKey).publicKey)
    /\ cur = orig

C17_VerifyNeverThrows ==
    VerifyCalled =>
        /\ verifyResult \in {"true", "false"}
        /\ (~WellFormed(verifyInput.signature) \/ ~SignatureMatches)
              => verifyResult = "false"

\* What holds of the code: it resolves to a boolean for every input, and to
\* true only for the signer's key, the span as signed and a string that
\* parseInt reads as the bytes of the signature.
VerifyResolvesToBoolean ==
    VerifyCalled =>
        /\ verifyResult \in {"true", "false"}
        /\ verifyResult = "true" =>
              /\ verifyInput.publicKey = ExportKeyJwk(GenerateKeyPair(signKey).publicKey)
              /\ cur = orig
              /\ SignatureBytes(ReplacePrefix(verifyInput.signature.s))
                    = SignatureBytes(ReplacePrefix(sig))

(***************************************************************************)
(* C18: when, after signSpan, confirmed_by is attached and completed_at,   *)
(* duration_ms or parent_id are set, changed or removed, and nothing else  *)
(* is, verifySignature with the signer's public key still returns true.    *)
(***************************************************************************)
LaterFields == {"confirmed_by", "completed_at", "duration_ms", "parent_id"}

OnlyLaterFieldsChanged ==
    \A k \in (Range(Keys(cur)) \cup Range(Keys(orig))) \ LaterFields :
        Get(cur, k) = Get(orig, k)

C18_SignatureSurvivesAdditions ==
    (VerifiedBySigner /\ OnlyLaterFieldsChanged) => verifyResult = "true"

\* confirmed_by was attached and another of the fields set: the span
\* verified has other keys than the span signed.
C18_Witness ==
    /\ VerifiedBySigner
    /\ OnlyLaterFieldsChanged
    /\ verifyResult = "true"
    /\ HasKey(cur, "confirmed_by")
    /\ ~HasKey(orig, "confirmed_by")
    /\ \E k \in LaterFields \ {"confirmed_by"} : Get(cur, k) # Get(orig, k)

(***************************************************************************)
(* C19 (as claimed): once an identity is stored under 'self', no operation *)
(* replaces its keypair: the stored public key stays the same.             *)
(***************************************************************************)
StoredPublicKeys == {r.public_key : r \in {i \in identity : i.id = "self"}}

C19_IdentityNeverRotated ==
    [][StoredPublicKeys # {} => StoredPublicKeys' = StoredPublicKeys]_vars

\* What follows in the claim: every signed span of the ledger verifies
\* against the stored identity's public key.
SignedSpansVerify ==
    \A s \in spans : \A key \in StoredPublicKeys :
        HasKey(s, "confirmed_by") =>
            VerifySignature(s, Get(Get(s, "confirmed_by"), "signature").s, key)

(***************************************************************************)
(* C20: two calls of appendToLedger, their steps interleaved in any way.   *)
(* When both have settled and their spans have the same id, exactly one    *)
(* call succeeded, the other failed, and the ledger holds exactly one span *)
(* under that id, the span of the call that succeeded.  When the ids       *)
(* differ both succeeded and the ledger holds both spans.  A span a call   *)
(* has added stays in the ledger as it is.                                 *)
(***************************************************************************)
BothSettled ==
    /\ Len(calls) = Cardinality(CallIds)
    /\ \A i \in DOMAIN calls : calls[i].pc = "done"

Succeeded(i) == calls[i].outcome = "ok"

SameIdOneWinner ==
    \E w \in CallIds : \E l \in CallIds \ {w} :
        /\ Succeeded(w)
        /\ calls[l].outcome = "ConstraintError"
        /\ {r \in spans : SpanId(r) = SpanId(calls[w].span)} = {calls[w].span}

DifferentIdsBothStored ==
    /\ \A i \in CallIds : Succeeded(i)
    /\ spans = {calls[i].span : i \in CallIds}

C20_ConcurrentAppends ==
    /\ \A i \in DOMAIN calls : Succeeded(i) => calls[i].span \in spans
    /\ BothSettled =>
          IF SpanId(calls[1].span) = SpanId(calls[2].span)
          THEN SameIdOneWinner
          ELSE DifferentIdsBothStored

\* Both calls found no connection and opened one each, their spans have the
\* same id and differ, and the call that was made second succeeded.
C20_Witness ==
    /\ BothSettled
    /\ SpanId(calls[1].span) = SpanId(calls[2].span)
    /\ calls[1].span # calls[2].span
    /\ calls[1].db # calls[2].db
    /\ Succeeded(2)

(***************************************************************************)
(* C21: of two ids generateId built, the one built at the earlier instant  *)
(* is the smaller string, whatever the random bytes; every id is 8-4-4-4-12 *)
(* hexadecimal digits with '7' first in the third group.                   *)
(***************************************************************************)
IdChars == <<"-">> \o HexDigits

IdCharRank(c) == CHOOSE r \in 1..Len(IdChars) : IdChars[r] = c

\* a < b of two strings, by code units
CodeUnitLess(a, b) ==
    \E i \in 1..(Len(a) + 1) :
        /\ i <= Len(b)
        /\ \A j \in 1..(i - 1) : a[j] = b[j]
        /\ (i = Len(a) + 1 \/ IdCharRank(a[i]) < IdCharRank(b[i]))

Hyphens == {9, 14, 19, 24}

UuidLayout(id) ==
    /\ Len(id) = 36
    /\ \A i \in 1..Len(id) :
          IF i \in Hyphens THEN id[i] = "-" ELSE HexValue(id[i]) >= 0
    /\ id[15] = "7"

C21_IdsSortChronologically ==
    /\ \A i \in DOMAIN idLog : UuidLayout(idLog[i].id)
    /\ \A i \in DOMAIN idLog : \A j \in DOMAIN idLog :
          TimeLess(idLog[i].at, idLog[j].at) =>
              CodeUnitLess(idLog[i].id, idLog[j].id)

\* An id of random bytes 255 built one millisecond before an id of random
\* bytes 0, the later instant having one hexadecimal digit more.
C21_Witness ==
    /\ Len(idLog) = 2
    /\ idLog[1].at = [hi |-> 0, lo |-> 15]
    /\ idLog[2].at = [hi |-> 0, lo |-> 16]
    /\ idLog[1].id[16] = "f"
    /\ idLog[2].id[16] = "0"

(***************************************************************************)
(* C22: every span of the ledger has a non-empty this.hash, and            *)
(* calculateSpanHash of the stored span, confirmed_by attached, gives that *)
(* hash again.  The signature of a signed span verifies over the stored    *)
(* hash: the hash was there when the span was signed.                      *)
(***************************************************************************)
StoredHash(span) == Get(Get(span, "this"), "hash")

SignedOverStoredHash(span) ==
    \E k \in KeyPairs :
        VerifySignature(span, Get(Get(span, "confirmed_by"), "signature").s,
                        ExportKeyJwk(GenerateKeyPair(k).publicKey))

C22_StoredHashMatches ==
    \A s \in spans :
        /\ StoredHash(s).t = "string"
        /\ StoredHash(s).s # <<>>
        /\ CalculateSpanHash(s) = StoredHash(s).s
        /\ HasKey(s, "confirmed_by") => SignedOverStoredHash(s)

\* The ledger holds a registration span, signed, and the contract span that
\* handleSaveContract has just appended.
C22_Witness ==
    /\ lastOp.op = "handleSaveContract"
    /\ lastError = "none"
    /\ lastOp.span \in spans
    /\ \E s \in spans :
          /\ HasKey(s, "confirmed_by")
          /\ Get(s, "type") = Atom("user.registered")

(***************************************************************************)
(* C23 (as claimed): after a registerUser that succeeded with user u, the  *)
(* credential stored under u.id decrypts, with u.id as decryptApiKey's     *)
(* user id, to exactly the API key registerUser was given.                 *)
(***************************************************************************)
LastRegistered == registered[Len(registered)]

RegistrationJustSucceeded ==
    /\ registered # <<>>
    /\ LastRegistered.ok
    /\ lastOp.op = "registerUser"

CredentialDecryptsTo(userId, key) ==
    \E c \in GetCredential(userId) :
        DecryptApiKey(c.encrypted_key, userId) = [ok |-> TRUE, value |-> key]

C23_CredentialDecryptsToApiKey ==
    RegistrationJustSucceeded =>
        CredentialDecryptsTo(LastRegistered.userId, LastRegistered.apiKey)

\* What holds: the credential decrypts, under the user's id, to the key as
\* TextEncoder and TextDecoder pass it on; that is the key itself when it
\* has no surrogate without partner and no byte order mark in front.
CredentialDecryptsToPlainKey ==
    RegistrationJustSucceeded =>
        /\ CredentialDecryptsTo(LastRegistered.userId,
                                TextDecode(TextEncode(LastRegistered.apiKey)))
        /\ (\A i \in 1..Len(LastRegistered.apiKey) :
               LastRegistered.apiKey[i] \notin {"U+D800", "U+FEFF"})
              => CredentialDecryptsTo(LastRegistered.userId, LastRegistered.apiKey)

(***************************************************************************)
(* C24 (as claimed): at step 'complete' the session's user_id is the id of *)
(* the user registerUser stored: getCurrentUser returns that user and      *)
(* getCredential for it returns the credential saved at registration.      *)
(***************************************************************************)
C24_SessionNamesRegisteredUser ==
    step = "complete" =>
        /\ \E s \in session : s.id = "current" /\ s.user_id = LastRegistered.userId
        /\ \E u \in GetCurrentUser :
              u.id = LastRegistered.userId /\ GetCredential(u.id) # {}

\* What holds: the session's user_id is built from the same name; the two
\* ids agree, and the user is found, exactly when Math.random gave the same
\* three characters twice.
SessionNamesUserOfSameName ==
    step = "complete" =>
        \E s \in session :
            /\ s.id = "current"
            /\ SubSeq(s.user_id, 1, Len(s.user_id) - 1)
                   = SubSeq(LastRegistered.userId, 1, Len(LastRegistered.userId) - 1)
            /\ (s.user_id = LastRegistered.userId)
                   <=> (\E u \in GetCurrentUser : u.id = LastRegistered.userId)

(***************************************************************************)
(* C25 (as claimed): the navigation to /dashboard that follows step        *)
(* 'complete' shows the Dashboard.                                         *)
(***************************************************************************)
C25_DashboardAfterOnboarding ==
    arrivedBy = "complete" => Rendered = "Dashboard"

\* What holds: that navigation never shows the Dashboard; it is answered by
\* a Navigate element and then by the Onboarding page, begun anew.
BackToOnboarding ==
    arrivedBy = "complete" =>
        /\ isAuthenticated = "false"
        /\ Rendered \in {"Navigate", "Onboarding"}

(***************************************************************************)
(* C26: Dashboard and CreateContract are rendered only while               *)
(* isAuthenticated is true; while it is null only the spinner is rendered; *)
(* with isAuthenticated false every location leads to Onboarding, with     *)
(* isAuthenticated true '/' and every location without a route lead to the *)
(* Dashboard.                                                              *)
(***************************************************************************)
RECURSIVE Leads(_, _)
Leads(authenticated, location) ==
    IF RouteElement(authenticated, location).page = "Navigate"
    THEN Leads(authenticated, RouteElement(authenticated, location).to)
    ELSE RouteElement(authenticated, location).page

C26_RouteGuard ==
    /\ Rendered \in {"Dashboard", "CreateContract"} => isAuthenticated = "true"
    /\ isAuthenticated = "null" => Rendered = "Spinner"
    /\ isAuthenticated = "false" => Leads(FALSE, path) = "Onboarding"
    /\ (isAuthenticated = "true" /\ path \notin {"/dashboard", "/create"})
          => Leads(TRUE, path) = "Dashboard"
    /\ isAuthenticated = "true" => Rendered # "Onboarding"
    /\ isAuthenticated = "false" => Rendered \in {"Onboarding", "Navigate"}

\* A session exists, the application was loaded again and shows the
\* Dashboard, from which a location without a route was asked for.
C26_Witness ==
    /\ isAuthenticated = "true"
    /\ path = "/settings"
    /\ arrivedBy = "page"

(***************************************************************************)
(* C28: Onboarding's step changes only from welcome to name, from name to  *)
(* apikey with a name that is not blank, and from apikey to complete when  *)
(* testApiKey returned true and registerUser and createSession succeeded.  *)
(* When handleApiKeySubmit ends otherwise the step is still 'apikey', a    *)
(* message is set and nothing more is written: no store changes after an   *)
(* invalid key, no span and no session after a registerUser that threw, no *)
(* session after a createSession that threw.  loading is false when the    *)
(* call has ended.                                                         *)
(***************************************************************************)
Unmounts == path' # path \/ isAuthenticated' # isAuthenticated

SubmitEnds == submitted # <<>> /\ submitted' = <<>> /\ ~Unmounts

StepAdvances ==
    step' # step =>
        \/ Unmounts /\ step' = "welcome"
        \/ step = "welcome" /\ step' = "name"
        \/ step = "name" /\ step' = "apikey" /\ typedName \notin {<<>>, <<" ">>}
        \/ /\ step = "apikey" /\ step' = "complete"
           /\ SubmitEnds
           /\ Len(registered') = Len(registered) + 1
           /\ registered'[Len(registered')].ok
           /\ TestApiKey(submitted[1].apiKey,
                         DetectProvider(submitted[1].apiKey), TRUE)
           /\ \E s \in session' : s \notin session

SubmitFails ==
    (SubmitEnds /\ step' # "complete") =>
        /\ step = "apikey" /\ step' = "apikey"
        /\ error' # ""
        /\ registered' = registered =>
              UNCHANGED <<spans, contracts, users, credentials, identity, session>>
        /\ (registered' # registered /\ ~registered'[Len(registered')].ok) =>
              UNCHANGED <<spans, session>>
        /\ session' = session

C28_OnboardingSteps ==
    [][/\ StepAdvances
       /\ SubmitFails
       /\ SubmitEnds => ~loading'
       /\ loading' <=> submitted' # <<>>]_vars

\* A submission has just ended at step 'complete', after one that ended with
\* a message.
C28_Witness ==
    /\ step = "complete"
    /\ Len(registered) = 2
    /\ ~registered[1].ok
    /\ registered[2].ok

(***************************************************************************)
(* C29: registerUser stores the user, then the credential, then the        *)
(* identity, and appends its span last, hashed and then signed.  Every     *)
(* 'user.registered' span of the ledger is signed, its signature verifies  *)
(* under the public key of the keypair its own call generated, and the     *)
(* user and a credential of its signer_id are stored.  A call that threw   *)
(* at generateKeyPair has written no span; a call whose append was         *)
(* refused had its user, credential and identity stored before.            *)
(***************************************************************************)
RegistrationSpans == {s \in spans : Get(s, "type") = Atom("user.registered")}

SignerId(span) == Get(Get(span, "confirmed_by"), "signer_id").s

\* The keypair that the call which drew this span id generated.
KeyPairOfCall(span) ==
    GenerateKeyPair((CHOOSE r \in Registrations : <<r.id>> = SpanId(span)).pair)

UserAndCredentialStored(userId) ==
    /\ \E u \in users : u.id = userId
    /\ \E c \in credentials : c.user_id = userId

SignedByItsCall(span) ==
    /\ HasKey(span, "confirmed_by")
    /\ VerifySignature(span, Get(Get(span, "confirmed_by"), "signature").s,
                       ExportKeyJwk(KeyPairOfCall(span).publicKey))
    /\ \A k \in KeyPairs \ {KeyPairOfCall(span).publicKey.pair} :
          ~VerifySignature(span, Get(Get(span, "confirmed_by"), "signature").s,
                           ExportKeyJwk(GenerateKeyPair(k).publicKey))

C29_RegistrationOrder ==
    /\ \A s \in RegistrationSpans :
          /\ SignedByItsCall(s)
          /\ UserAndCredentialStored(SignerId(s))
          /\ Get(Get(Get(s, "body"), "input"), "user_id").s = SignerId(s)
    /\ (lastOp.op = "registerUser" /\ lastError = "NotSupportedError") =>
          /\ spans = prevSpans
          /\ users # {}
          /\ credentials # {}
    /\ (lastOp.op = "registerUser" /\ lastError = "ConstraintError") =>
          /\ spans = prevSpans
          /\ UserAndCredentialStored(SignerId(lastOp.span))
          /\ StoredPublicKeys =
                {ExportKeyJwk(KeyPairOfCall(lastOp.span).publicKey)}
    /\ (lastOp.op = "registerUser" /\ lastError = "none") =>
          /\ lastOp.span \in RegistrationSpans
          /\ StoredPublicKeys =
                {ExportKeyJwk(KeyPairOfCall(lastOp.span).publicKey)}

\* Two calls of registerUser have appended their spans, each signed with its
\* own keypair.
C29_Witness ==
    /\ lastOp.op = "registerUser"
    /\ lastError = "none"
    /\ Cardinality(RegistrationSpans) = 2

(***************************************************************************)
(* C27: every span id listed in a stored contract is the id of a span of   *)
(* the ledger whose trace_id is the contract's id.  The contracts change   *)
(* only in a step of handleSaveContract whose append succeeded, which has  *)
(* just added the contract's span to the ledger; a step that ends with     *)
(* handleSaveContract's append refused leaves the contracts as they were.  *)
(***************************************************************************)
ContractSpansInLedger ==
    \A c \in contracts : \A i \in DOMAIN c.spans :
        \E s \in spans :
            /\ SpanId(s) = <<c.spans[i]>>
            /\ Get(s, "trace_id") = Atom(c.id)

SavedAfterAppend ==
    contracts' # contracts =>
        /\ lastOp'.op = "handleSaveContract"
        /\ lastError' = "none"
        /\ lastOp'.span \in spans' \ spans
        /\ \E c \in contracts' \ contracts :
              /\ <<c.spans[1]>> = SpanId(lastOp'.span)
              /\ c.status = "draft"

NoContractAfterFailedAppend ==
    (lastOp'.op = "handleSaveContract" /\ lastError' # "none") =>
        contracts' = contracts /\ spans' = spans

C27_ContractIntegrity ==
    /\ []ContractSpansInLedger
    /\ [][SavedAfterAppend /\ NoContractAfterFailedAppend]_vars

\* A contract is stored, and a later handleSaveContract was refused its
\* append.
C27_Witness ==
    /\ contracts # {}
    /\ lastOp.op = "handleSaveContract"
    /\ lastError = "ConstraintError"
    /\ createError = "Erro ao salvar contrato"

(***************************************************************************)
(* C30: whenever generating is false the conversation alternates between   *)
(* user and assistant messages, starts with a user message and has even    *)
(* length; the message list given to callLLM holds the submitted text      *)
(* exactly once among the user messages that follow the last answer.       *)
(***************************************************************************)
Alternates(messages) ==
    \A i \in DOMAIN messages :
        messages[i].role = IF i % 2 = 1 THEN "user" ELSE "assistant"

\* The messages that follow the last assistant message.
SinceLastAnswer(messages) ==
    LET answers == {i \in DOMAIN messages : messages[i].role = "assistant"}
        last == IF answers = {} THEN 0
                ELSE CHOOSE i \in answers : \A j \in answers : j <= i
    IN SubSeq(messages, last + 1, Len(messages))

TimesSubmitted(messages, text) ==
    Cardinality({i \in DOMAIN SinceLastAnswer(messages) :
                    /\ SinceLastAnswer(messages)[i].role = "user"
                    /\ SinceLastAnswer(messages)[i].content = text})

ConversationInTurns ==
    ~generating => Alternates(conversation) /\ Len(conversation) % 2 = 0

SentOnce ==
    \A i \in DOMAIN sent : TimesSubmitted(sent[i].messages, sent[i].text) = 1

C30_ConversationAlternates == ConversationInTurns /\ SentOnce

\* What does hold: the conversation shown while a call waits for callLLM
\* is the message list that call gave to callLLM, and a conversation of
\* odd length is shown together with the error message of a failed call
\* or after such a call.
ShownIsSent ==
    \A i \in DOMAIN pending :
        (pending[i].pc = "answers" /\ pending[i].mounted /\ generating) =>
            \/ conversation = <<>>
            \/ \E j \in DOMAIN sent : conversation = sent[j].messages

====
